---- MODULE Spec2Model ----
(***************************************************************************)
(* A model of the IronPath backend's agent layer: the BaseAgent retry loop *)
(* and cache, the Router / Analyst / Programmer agents, the FeedbackAgent  *)
(* fallback and the /agent/message dispatcher.                             *)
(***************************************************************************)
EXTENDS Integers, Sequences, FiniteSets, TLC

VARIABLES
    store,          \* the persistent store: tables of the database
    agentKind,      \* class of the agent instance under use ("none" before construction)
    max_retries,    \* BaseAgent.max_retries of that instance
    cache,          \* BaseAgent._cache of that instance (a Python dict)
    pc,             \* position of the running call: "idle", "gemini", "done"
    op,             \* the method being executed
    arg,            \* its arguments
    attempt,        \* the loop variable of _call_gemini: attempts made so far
    geminiLog,      \* outcomes the provider gave to the attempts of this _call_gemini
    result,         \* what the call returned or raised
    dbLog,          \* every operation the instance has issued on db_session
    handler,        \* the request handler's locals (route functions)
    history         \* observations kept for the properties (no counterpart in the code)

vars == <<store, agentKind, max_retries, cache, pc, op, arg, attempt, geminiLog,
          result, dbLog, handler, history>>

-----------------------------------------------------------------------------
(* Bounds of the model *)

MaxRetriesBound == 3
MaxExercises == 2
MaxCacheCalls == 4
MaxAgentCalls == 2
MaxExerciseCalls == 2

-----------------------------------------------------------------------------
(* Python values.  Every value carries its type so that truthiness, which   *)
(* the code relies on in `if cached := ...` and `if not x`, can be computed *)

None == [t |-> "None"]
PyList(s) == [l |-> s, t |-> "list"]
PyDict(pairs) == [d |-> pairs, t |-> "dict"]
PyRow(table, key) == [r |-> <<table, key>>, t |-> "row"]
PyStr(s) == [s |-> s, t |-> "str"]

\* bool(v) as Python computes it: None, "", [], {} are falsy; an ORM row is truthy
Truthy(v) ==
    CASE v.t = "None" -> FALSE
      [] v.t = "list" -> Len(v.l) > 0
      [] v.t = "dict" -> v.d # {}
      [] v.t = "str"  -> v.s # ""
      [] OTHER        -> TRUE

-----------------------------------------------------------------------------
(* The persistent store.  training_methodologies and exercises are reference *)
(* tables keyed by id; agent_conversations is an append-only log; programs   *)
(* stands for the program/profile rows an agent could mutate.                *)

MethodologyIds == {"westside", "sheiko"}

MethodologyName(id) ==
    IF id = "westside" THEN "Westside Conjugate" ELSE "Sheiko"

\* rows of the exercises table the seeds may hold: complexity and equipment columns
ExerciseIds == 1..7

Exercise(id) ==
    CASE id = 1 -> [id |-> 1, complexity |-> "beginner",     equipment |-> {"barbell", "rack"}]
      [] id = 2 -> [id |-> 2, complexity |-> "beginner",     equipment |-> {"dumbbells"}]
      [] id = 3 -> [id |-> 3, complexity |-> "intermediate", equipment |-> {"barbell", "bench"}]
      [] id = 4 -> [id |-> 4, complexity |-> "intermediate", equipment |-> {"cable", "machines"}]
      [] id = 5 -> [id |-> 5, complexity |-> "advanced",     equipment |-> {"machines"}]
      [] id = 6 -> [id |-> 6, complexity |-> "advanced",     equipment |-> {"barbell", "bands", "chains"}]
      [] OTHER  -> [id |-> 7, complexity |-> "advanced",     equipment |-> {"barbell"}]

Stores ==
    [methodologies : SUBSET MethodologyIds,
     exercises     : {S \in SUBSET ExerciseIds : Cardinality(S) <= MaxExercises},
     conversations : {<<>>},
     programs      : {{"program_1"}}]

\* operations on AsyncSession
NoRow == [none |-> TRUE]
DbSelect(table)   == [verb |-> "select", table |-> table, row |-> NoRow]
DbAdd(table, row) == [verb |-> "add", table |-> table, row |-> row]
DbCommit          == [verb |-> "commit", table |-> "", row |-> NoRow]
DbRollback        == [verb |-> "rollback", table |-> "", row |-> NoRow]

\* the rows of the pending adds that go to one table
PendingRows(pending, table) ==
    LET adds == SelectSeq(pending, LAMBDA o : o.table = table)
    IN  [i \in 1..Len(adds) |-> adds[i].row]

\* the store after a sequence of session operations: added rows are pending
\* until a commit writes them and a rollback discards them
RECURSIVE ApplyDbFrom(_, _, _)
ApplyDbFrom(st, pending, ops) ==
    IF ops = <<>> THEN st
    ELSE LET o == Head(ops)
         IN  CASE o.verb = "add" -> ApplyDbFrom(st, Append(pending, o), Tail(ops))
               [] o.verb = "commit" ->
                    ApplyDbFrom([st EXCEPT
                                    !.conversations =
                                        @ \o PendingRows(pending, "agent_conversations"),
                                    !.programs =
                                        @ \cup {r.id : r \in
                                                  {PendingRows(pending, "programs")[i] :
                                                      i \in 1..Len(PendingRows(pending, "programs"))}}],
                                <<>>, Tail(ops))
               [] o.verb = "rollback" -> ApplyDbFrom(st, <<>>, Tail(ops))
               [] OTHER -> ApplyDbFrom(st, pending, Tail(ops))

ApplyDb(st, ops) == ApplyDbFrom(st, <<>>, ops)

\* the rows a set of ids denotes, in primary-key order
RECURSIVE RowsInOrder(_)
RowsInOrder(S) ==
    IF S = {} THEN <<>>
    ELSE LET m == CHOOSE x \in S : \A y \in S : x <= y
         IN  <<m>> \o RowsInOrder(S \ {m})

-----------------------------------------------------------------------------
(* BaseAgent: the request-scoped cache *)

EmptyCache == [k \in {} |-> None]

\* dict.get: the value stored under key, None when the key is absent
cache_get(c, key) ==
    IF key \in DOMAIN c THEN c[key] ELSE None

cache_set(c, key, value) ==
    [k \in DOMAIN c \cup {key} |-> IF k = key THEN value ELSE c[k]]

\* what a method hands back: the cache after it, the session operations it
\* issued, and its return value or the exception it raised
Returned(c, db, v) == [cache |-> c, db |-> db, status |-> "return", err |-> "", val |-> v]
Raised(c, db, e)   == [cache |-> c, db |-> db, status |-> "raise", err |-> e, val |-> None]

-----------------------------------------------------------------------------
(* ProgrammerAgent: methodology and exercise loading *)

TrainingAges == {"novice", "intermediate", "advanced"}
EquipmentTiers == {"garage", "commercial", "hardcore"}

_load_methodology_uncached(c, st, methodology_id) ==
    IF methodology_id \in st.methodologies
    THEN Returned(c, <<DbSelect("training_methodologies")>>,
                  PyRow("training_methodologies", methodology_id))
    ELSE Raised(c, <<DbSelect("training_methodologies")>>, "NoResultFound")

_load_methodology_or_none(c, st, methodology_id) ==
    LET cache_key == "methodology_" \o methodology_id
        cached == cache_get(c, cache_key)
    IN  IF Truthy(cached)
        THEN Returned(c, <<>>, cached)
        ELSE LET methodology == IF methodology_id \in st.methodologies
                                THEN PyRow("training_methodologies", methodology_id)
                                ELSE None
             IN  Returned(cache_set(c, cache_key, methodology),
                          <<DbSelect("training_methodologies")>>, methodology)

_load_methodology(c, st, methodology_id) ==
    LET cache_key == "methodology_" \o methodology_id
        cached == cache_get(c, cache_key)
    IN  IF Truthy(cached)
        THEN Returned(c, <<>>, cached)
        ELSE IF methodology_id \in st.methodologies
             THEN LET methodology == PyRow("training_methodologies", methodology_id)
                  IN  Returned(cache_set(c, cache_key, methodology),
                               <<DbSelect("training_methodologies")>>, methodology)
             ELSE Raised(c, <<DbSelect("training_methodologies")>>, "NoResultFound")

_get_available_equipment(equipment_access) ==
    CASE equipment_access = "garage" -> {"barbell", "rack", "bench"}
      [] equipment_access = "hardcore" ->
            {"barbell", "rack", "bench", "dumbbells", "cable", "machines",
             "bands", "chains", "specialty_bars"}
      [] OTHER -> {"barbell", "rack", "bench", "dumbbells", "cable", "machines"}

complexity_mapping_exact(training_age) ==
    CASE training_age = "novice" -> {"beginner"}
      [] training_age = "intermediate" -> {"intermediate"}
      [] OTHER -> {"advanced"}

complexity_mapping(training_age) ==
    CASE training_age = "novice" -> {"beginner"}
      [] training_age = "intermediate" -> {"beginner", "intermediate"}
      [] OTHER -> {"beginner", "intermediate", "advanced"}

filtered_exercises_any_equipment(st, equipment_access, training_age) ==
    LET available_equipment == _get_available_equipment(equipment_access)
        allowed_complexity == complexity_mapping(training_age)
        all_exercises ==
            RowsInOrder({id \in st.exercises : Exercise(id).complexity \in allowed_complexity})
    IN  SelectSeq(all_exercises,
                  LAMBDA id : Exercise(id).equipment \cap available_equipment # {})

\* the query and the list comprehension of _get_exercises_for_profile
filtered_exercises(st, equipment_access, training_age) ==
    LET available_equipment == _get_available_equipment(equipment_access)
        allowed_complexity == complexity_mapping(training_age)
        all_exercises ==
            RowsInOrder({id \in st.exercises : Exercise(id).complexity \in allowed_complexity})
    IN  SelectSeq(all_exercises,
                  LAMBDA id : Exercise(id).equipment \subseteq available_equipment)

_get_exercises_for_profile(c, st, equipment_access, training_age) ==
    LET cache_key == "exercises_" \o equipment_access \o "_" \o training_age
        cached == cache_get(c, cache_key)
    IN  IF Truthy(cached)
        THEN Returned(c, <<>>, cached)
        ELSE LET ex == PyList(filtered_exercises(st, equipment_access, training_age))
             IN  Returned(cache_set(c, cache_key, ex), <<DbSelect("exercises")>>, ex)

-----------------------------------------------------------------------------
(* Calls on one agent instance.  A call that does not reach the completion  *)
(* provider runs to its end in one step.                                    *)

NoArg == [none |-> TRUE]
NoHandler == [pc |-> "none"]
NoGemini == [ctl |-> "none", text |-> "", err |-> ""]
NoResult == [status |-> "none", err |-> "", val |-> None, db |-> <<>>, gemini |-> NoGemini]

\* a finished method call: its effects on the instance and what the caller sees
Finish(o, a, r) ==
    /\ op' = o
    /\ arg' = a
    /\ cache' = r.cache
    /\ dbLog' = dbLog \o r.db
    /\ store' = ApplyDb(store, r.db)
    /\ result' = [status |-> r.status, err |-> r.err, val |-> r.val, db |-> r.db,
                  gemini |-> NoGemini]
    /\ pc' = "done"

\* BaseAgent.__init__ as the subclasses call it
Construct(kind, retries) ==
    /\ agentKind' = kind
    /\ max_retries' = retries
    /\ cache' = EmptyCache
    /\ pc' = "idle"
    /\ op' = "__init__"
    /\ arg' = NoArg
    /\ attempt' = 0
    /\ geminiLog' = <<>>
    /\ result' = NoResult
    /\ dbLog' = <<>>

DefaultMaxRetries == 3

-----------------------------------------------------------------------------
(* SpecCache: cache_get / cache_set and ProgrammerAgent._load_methodology   *)
(* called in any order on one ProgrammerAgent instance.                     *)

DirectKeys == {"k1", "k2"}
DirectValues == {None, PyList(<<>>), PyStr("v")}
LoadIds == MethodologyIds \cup {"None"}
Unset == [t |-> "unset"]

CacheHistory0 ==
    [calls   |-> 0,
     lastSet |-> [k \in DirectKeys |-> Unset],
     gets    |-> 0,
     loads   |-> [id \in LoadIds |-> 0],
     reads   |-> [id \in LoadIds |-> 0]]

InitCache ==
    /\ store \in {st \in Stores : st.exercises = {}}
    /\ agentKind = "programmer"
    /\ max_retries = DefaultMaxRetries
    /\ cache = EmptyCache
    /\ pc = "idle"
    /\ op = "__init__"
    /\ arg = NoArg
    /\ attempt = 0
    /\ geminiLog = <<>>
    /\ result = NoResult
    /\ dbLog = <<>>
    /\ handler = NoHandler
    /\ history = CacheHistory0

ConstructProgrammer ==
    /\ history.calls > 0
    /\ Construct("programmer", DefaultMaxRetries)
    /\ history' = CacheHistory0
    /\ UNCHANGED <<store, handler>>

CallCacheSet ==
    \E key \in DirectKeys, value \in DirectValues :
        /\ history.calls < MaxCacheCalls
        /\ Finish("cache_set", [key |-> key], Returned(cache_set(cache, key, value), <<>>, None))
        /\ history' = [history EXCEPT !.calls = @ + 1, !.lastSet[key] = value]
        /\ UNCHANGED <<agentKind, max_retries, attempt, geminiLog, handler>>

CallCacheGet ==
    \E key \in DirectKeys :
        /\ history.calls < MaxCacheCalls
        /\ Finish("cache_get", [key |-> key], Returned(cache, <<>>, cache_get(cache, key)))
        /\ history' = [history EXCEPT !.calls = @ + 1, !.gets = @ + 1]
        /\ UNCHANGED <<agentKind, max_retries, attempt, geminiLog, handler>>

CallLoadMethodology ==
    \E id \in LoadIds :
        LET r == _load_methodology(cache, store, id)
        IN  /\ history.calls < MaxCacheCalls
            /\ Finish("_load_methodology", [id |-> id], r)
            /\ history' = [history EXCEPT !.calls = @ + 1,
                                          !.loads[id] = @ + 1,
                                          !.reads[id] = @ + Len(r.db)]
            /\ UNCHANGED <<agentKind, max_retries, attempt, geminiLog, handler>>

NextCache ==
    \/ ConstructProgrammer
    \/ CallCacheSet
    \/ CallCacheGet
    \/ CallLoadMethodology

SpecCache == InitCache /\ [][NextCache]_vars

\* C8: on one agent instance cache_get(k) returns the value of the latest
\* cache_set(k, v) (None before any), and _load_methodology(id) for an id that
\* exists in the store returns that methodology on every call while the store
\* is read exactly once, by the first call.
C8_CacheIdempotence ==
    /\ (op = "cache_get" /\ pc = "done") =>
          result.val = (IF history.lastSet[arg.key] = Unset THEN None
                        ELSE history.lastSet[arg.key])
    /\ \A id \in store.methodologies :
          history.loads[id] >= 1 => history.reads[id] = 1
    /\ (op = "_load_methodology" /\ pc = "done" /\ arg.id \in store.methodologies) =>
          /\ result.status = "return"
          /\ result.val = PyRow("training_methodologies", arg.id)
          /\ (history.loads[arg.id] >= 2 => result.db = <<>>)

C8_Witness ==
    /\ op = "_load_methodology" /\ pc = "done"
    /\ arg.id \in store.methodologies
    /\ history.loads[arg.id] >= 2
    /\ history.gets >= 1
    /\ \E k \in DirectKeys : history.lastSet[k] # Unset

-----------------------------------------------------------------------------
(* SpecExercises: ProgrammerAgent._get_exercises_for_profile called with    *)
(* any profiles on one ProgrammerAgent instance, over any exercises table.  *)

ProfileKeys == EquipmentTiers \X TrainingAges

ExerciseHistory0 ==
    [calls   |-> 0,
     exCalls |-> [k \in ProfileKeys |-> 0],
     exFirst |-> [k \in ProfileKeys |-> Unset]]

InitExercises ==
    /\ store \in {st \in Stores : st.methodologies = MethodologyIds}
    /\ agentKind = "programmer"
    /\ max_retries = DefaultMaxRetries
    /\ cache = EmptyCache
    /\ pc = "idle"
    /\ op = "__init__"
    /\ arg = NoArg
    /\ attempt = 0
    /\ geminiLog = <<>>
    /\ result = NoResult
    /\ dbLog = <<>>
    /\ handler = NoHandler
    /\ history = ExerciseHistory0

ConstructProgrammerEx ==
    /\ history.calls > 0
    /\ Construct("programmer", DefaultMaxRetries)
    /\ history' = ExerciseHistory0
    /\ UNCHANGED <<store, handler>>

CallGetExercises ==
    \E k \in ProfileKeys :
        LET r == _get_exercises_for_profile(cache, store, k[1], k[2])
        IN  /\ history.calls < MaxExerciseCalls
            /\ Finish("_get_exercises_for_profile",
                      [equipmentAccess |-> k[1], trainingAge |-> k[2]], r)
            /\ history' = [history EXCEPT
                              !.calls = @ + 1,
                              !.exCalls[k] = @ + 1,
                              !.exFirst[k] = IF @ = Unset THEN r.val ELSE @]
            /\ UNCHANGED <<agentKind, max_retries, attempt, geminiLog, handler>>

NextExercises ==
    \/ ConstructProgrammerEx
    \/ CallGetExercises

SpecExercises == InitExercises /\ [][NextExercises]_vars

ArgKey == <<arg.equipmentAccess, arg.trainingAge>>

\* C9: once _get_exercises_for_profile has run for an (equipmentAccess,
\* trainingAge) on an instance, every later call for the same pair returns the
\* same list and issues no store read, whatever the list holds.
C9_ExerciseListCached ==
    (op = "_get_exercises_for_profile" /\ pc = "done" /\ history.exCalls[ArgKey] >= 2) =>
        /\ result.db = <<>>
        /\ result.val = history.exFirst[ArgKey]

AgeRank(a) == CASE a = "novice" -> 1 [] a = "intermediate" -> 2 [] OTHER -> 3
TierRank(e) == CASE e = "garage" -> 1 [] e = "commercial" -> 2 [] OTHER -> 3
Elements(list) == {list.l[i] : i \in 1..Len(list.l)}

\* C10: the exercise filter is monotonic: at the same equipment tier the list
\* returned for a higher training age contains the list returned for a lower
\* one, and at the same training age the list returned for a larger tier
\* contains the list returned for a smaller one.
C10_FilterMonotonic ==
    \A k1 \in ProfileKeys, k2 \in ProfileKeys :
        ( /\ history.exFirst[k1] # Unset
          /\ history.exFirst[k2] # Unset
          /\ \/ (k1[1] = k2[1] /\ AgeRank(k1[2]) <= AgeRank(k2[2]))
             \/ (k1[2] = k2[2] /\ TierRank(k1[1]) <= TierRank(k2[1])) )
        => Elements(history.exFirst[k1]) \subseteq Elements(history.exFirst[k2])

C10_Witness ==
    \E e \in EquipmentTiers :
        /\ history.exFirst[<<e, "novice">>] # Unset
        /\ history.exFirst[<<e, "intermediate">>] # Unset
        /\ Elements(history.exFirst[<<e, "novice">>]) # {}
        /\ Elements(history.exFirst[<<e, "novice">>]) # Elements(history.exFirst[<<e, "intermediate">>])

-----------------------------------------------------------------------------
(* JSON texts.  A document is an array or an object; an object is its list  *)
(* of members, each a key and the JSON text of its value.  json.dumps       *)
(* writes a document as text and json.loads reads a text back, failing on   *)
(* any text that is not the text of a document.                             *)

Quote(str) == "\"" \o str \o "\""
JsonObject(members) == [kind |-> "object", members |-> members]

RECURSIVE IndexItems(_)
IndexItems(items) ==
    IF items = <<>> THEN <<>> ELSE <<<<"", Head(items)>>>> \o IndexItems(Tail(items))

\* an array of values given by their texts
JsonArray(items) == [kind |-> "array", members |-> IndexItems(items)]

RECURSIVE DumpMembers(_, _)
DumpMembers(members, keyed) ==
    IF members = <<>> THEN ""
    ELSE (IF keyed THEN Quote(Head(members)[1]) \o ":" ELSE "") \o Head(members)[2]
         \o (IF Len(members) > 1 THEN "," ELSE "") \o DumpMembers(Tail(members), keyed)

json_dumps(doc) ==
    IF doc.kind = "array"
    THEN "[" \o DumpMembers(doc.members, FALSE) \o "]"
    ELSE "{" \o DumpMembers(doc.members, TRUE) \o "}"

Absent == "<absent>"

\* obj[key] of a parsed object: the value's text, Absent when the key is missing
Member(doc, key) ==
    IF \E i \in 1..Len(doc.members) : doc.members[i][1] = key
    THEN doc.members[CHOOSE i \in 1..Len(doc.members) : doc.members[i][1] = key][2]
    ELSE Absent

\* dict.get(key, default) on a dict of Python strings
DictGet(d, key, default) ==
    IF \E i \in 1..Len(d) : d[i][1] = key
    THEN d[CHOOSE i \in 1..Len(d) : d[i][1] = key][2]
    ELSE default

-----------------------------------------------------------------------------
(* RouterAgent: intent classification *)

Intents ==
    {"program_generation", "technique_question", "motivation_support",
     "program_adjustment", "general_chat"}
SuggestedAgents == {"programmer", "analyst_mentor", "feedback"}

ClassificationDoc(intent, confidence, reasoning, agent, ctx) ==
    JsonObject(
        <<<<"intent", Quote(intent)>>, <<"confidence", confidence>>>>
        \o (IF reasoning = Absent THEN <<>> ELSE <<<<"reasoning", Quote(reasoning)>>>>)
        \o <<<<"suggestedAgent", Quote(agent)>>, <<"requiresProgramContext", ctx>>>>)

\* the agent the router prompt associates with an intent
PromptAgent(intent) ==
    CASE intent = "program_generation" -> "programmer"
      [] intent = "program_adjustment" -> "feedback"
      [] OTHER -> "analyst_mentor"

\* classifications the model may answer with: for every intent a confident one
\* naming the usual agent and an unsure one naming the programmer; and three
\* that break the schema (unknown intent, confidence above 1, no reasoning)
ClassificationDocs ==
    {ClassificationDoc(i, "0.95", "clear", PromptAgent(i), "false") : i \in Intents}
    \cup {ClassificationDoc(i, "0.45", "unsure", "programmer", "true") : i \in Intents}
    \cup {ClassificationDoc("small_talk", "0.95", "clear", "analyst_mentor", "false"),
          ClassificationDoc("general_chat", "1.5", "clear", "analyst_mentor", "false"),
          ClassificationDoc("general_chat", "0.95", Absent, "analyst_mentor", "false")}

\* a JSON number as hundredths
Hundredths(number) ==
    CASE number = "0.45" -> 45
      [] number = "0.95" -> 95
      [] number = "1.5"  -> 150
      [] OTHER -> -1

\* IntentClassification(**data) succeeds: every field present and of its type,
\* intent and suggestedAgent in their enumerations, confidence within [0, 1]
ValidIntentClassification(doc) ==
    /\ Member(doc, "intent") \in {Quote(i) : i \in Intents}
    /\ Hundredths(Member(doc, "confidence")) \in 0..100
    /\ Member(doc, "reasoning") # Absent
    /\ Member(doc, "suggestedAgent") \in {Quote(a) : a \in SuggestedAgents}
    /\ Member(doc, "requiresProgramContext") \in {"true", "false"}

Unquote(text) ==
    CHOOSE str \in Intents \cup SuggestedAgents \cup {"clear", "unsure", "small_talk"} :
        Quote(str) = text

\* classification.model_dump()
model_dump(doc) ==
    [intent                 |-> Unquote(Member(doc, "intent")),
     confidence             |-> Hundredths(Member(doc, "confidence")),
     reasoning              |-> Unquote(Member(doc, "reasoning")),
     suggestedAgent         |-> Unquote(Member(doc, "suggestedAgent")),
     requiresProgramContext |-> (Member(doc, "requiresProgramContext") = "true"),
     t                      |-> "classification"]

-----------------------------------------------------------------------------
(* Documents of the feedback agent: sessions and adjustment answers *)

ExerciseDoc(name, sets, reps, rpe, rest) ==
    JsonObject(<<<<"name", Quote(name)>>, <<"sets", sets>>, <<"reps", Quote(reps)>>,
                 <<"rpeTarget", rpe>>, <<"restSeconds", rest>>>>)

SessionDoc(day, focus, exercises) ==
    JsonObject(<<<<"dayNumber", day>>, <<"focus", Quote(focus)>>, <<"exercises", exercises>>>>)

AdjustDoc(session, reason) ==
    JsonObject((IF session = Absent THEN <<>> ELSE <<<<"adjustedSession", session>>>>)
               \o (IF reason = Absent THEN <<>> ELSE <<<<"reason", reason>>>>))

ExerciseDocs ==
    {ExerciseDoc("Squat", "3", "5", "7", "180"),
     ExerciseDoc("Squat", "3", "5", "11", "180"),
     ExerciseDoc("Pause Bench Press", "4", "3-5", "8.5", "120")}

ExerciseArrays ==
    {JsonArray(<<>>)}
    \cup {JsonArray(<<json_dumps(e)>>) : e \in ExerciseDocs}

SessionDocs ==
    {SessionDoc("1", "Recovery", json_dumps(a)) : a \in ExerciseArrays}
    \cup {SessionDoc("9", "Recovery",
                     json_dumps(JsonArray(<<json_dumps(ExerciseDoc("Squat", "3", "5", "7", "180"))>>)))}

AdjustDocs ==
    {AdjustDoc(json_dumps(sd), Quote("Reduced volume")) : sd \in SessionDocs}
    \cup {AdjustDoc(json_dumps(sd), Absent) : sd \in SessionDocs}
    \cup {AdjustDoc(Absent, Quote("Reduced volume")),
          AdjustDoc("[]", Quote("Reduced volume"))}

\* documents of the programmer: weeks and programs
WeekDoc(number, sessions) ==
    JsonObject(<<<<"weekNumber", number>>, <<"sessions", sessions>>>>)

ProgramDoc(title, weeks) ==
    JsonObject(<<<<"id", Quote("program_2")>>, <<"createdAt", Quote("2025-01-01T00:00:00")>>>>
               \o (IF title = Absent THEN <<>> ELSE <<<<"title", Quote(title)>>>>)
               \o <<<<"weeks", weeks>>>>)

SessionArrays ==
    {JsonArray(<<json_dumps(SessionDoc("1", "Recovery",
                    json_dumps(JsonArray(<<json_dumps(ExerciseDoc("Squat", "3", "5", "7", "180"))>>))))>>)}

WeekDocs == {WeekDoc("1", json_dumps(a)) : a \in SessionArrays}

WeekArrays == {JsonArray(<<json_dumps(w)>>) : w \in WeekDocs}

\* programs the model may answer with: a complete one, one with no weeks and
\* one without a title
ProgramDocs ==
    {ProgramDoc("Strength Block", json_dumps(a)) : a \in WeekArrays}
    \cup {ProgramDoc(Absent, json_dumps(a)) : a \in WeekArrays}
    \cup {ProgramDoc("Strength Block", "[]")}

\* documents of the check-in agent: the analysis the prompt asks for
CheckInDoc(insights, recommendations, needed) ==
    JsonObject((IF insights = Absent THEN <<>> ELSE <<<<"insights", insights>>>>)
               \o (IF recommendations = Absent THEN <<>>
                   ELSE <<<<"recommendations", recommendations>>>>)
               \o (IF needed = Absent THEN <<>> ELSE <<<<"programAdjustmentsNeeded", needed>>>>))

CheckInPhrases == {"Adherence is high", "Recovery looks good", "Add a deload week"}

PhraseArrays ==
    {JsonArray(<<Quote("Adherence is high"), Quote("Recovery looks good")>>),
     JsonArray(<<Quote("Add a deload week")>>)}

\* analyses the model may answer with: complete ones, one with only insights,
\* an empty object, and one whose insights are a string instead of a list
CheckInDocs ==
    {CheckInDoc("[\"Adherence is high\",\"Recovery looks good\"]", "[\"Add a deload week\"]", n) :
        n \in {"true", "false"}}
    \cup {CheckInDoc("[\"Adherence is high\",\"Recovery looks good\"]", Absent, Absent),
          CheckInDoc(Absent, Absent, Absent),
          CheckInDoc(Quote("Adherence is high"), "[\"Add a deload week\"]", "false")}

\* every document a text of the model can be the text of
JsonDocuments ==
    ClassificationDocs \cup ExerciseDocs \cup ExerciseArrays \cup SessionDocs \cup AdjustDocs
    \cup SessionArrays \cup WeekDocs \cup WeekArrays \cup ProgramDocs
    \cup PhraseArrays \cup CheckInDocs

\* json.loads: the document whose text this is; JSONDecodeError (ok = FALSE)
\* when the text is no document's text
JsonTexts == {<<json_dumps(doc), doc>> : doc \in JsonDocuments}

json_lookup(found) ==
    IF found # {}
    THEN [ok |-> TRUE, doc |-> (CHOOSE p \in found : TRUE)[2]]
    ELSE [ok |-> FALSE, doc |-> JsonArray(<<>>)]

json_loads(text) == json_lookup({p \in JsonTexts : p[1] = text})

\* a JSON number of a session document, in tenths
Tenths(number) ==
    CASE number = "1"   -> 10
      [] number = "3"   -> 30
      [] number = "4"   -> 40
      [] number = "7"   -> 70
      [] number = "8.5" -> 85
      [] number = "9"   -> 90
      [] number = "11"  -> 110
      [] number = "120" -> 1200
      [] number = "180" -> 1800
      [] OTHER -> -1

IsInt(tenths) == tenths >= 0 /\ tenths % 10 = 0

\* the field constraints of ExerciseSchema, numbers in tenths
ValidExerciseFields(name, sets, reps, rpeTarget, restSeconds) ==
    /\ name # Absent
    /\ IsInt(sets)
    /\ sets \in 10..100
    /\ reps # Absent
    /\ rpeTarget \in 60..100
    /\ IsInt(restSeconds)
    /\ restSeconds \in 300..6000

ValidExerciseParsed(parsed) ==
    /\ parsed.ok
    /\ parsed.doc.kind = "object"
    /\ ValidExerciseFields(Member(parsed.doc, "name"), Tenths(Member(parsed.doc, "sets")),
                           Member(parsed.doc, "reps"), Tenths(Member(parsed.doc, "rpeTarget")),
                           Tenths(Member(parsed.doc, "restSeconds")))

\* ExerciseSchema(**e) succeeds
ValidExercise(text) == ValidExerciseParsed(json_loads(text))

\* a list of at least one valid exercise
ValidExerciseList(parsed) ==
    /\ parsed.ok
    /\ parsed.doc.kind = "array"
    /\ Len(parsed.doc.members) >= 1
    /\ \A i \in 1..Len(parsed.doc.members) : ValidExercise(parsed.doc.members[i][2])

ValidLiftingSessionFields(dayNumber, focus, exercises) ==
    /\ IsInt(dayNumber)
    /\ dayNumber \in 10..70
    /\ focus # Absent
    /\ exercises # Absent
    /\ ValidExerciseList(json_loads(exercises))

\* LiftingSessionSchema(**session) succeeds
ValidLiftingSession(doc) ==
    ValidLiftingSessionFields(Tenths(Member(doc, "dayNumber")), Member(doc, "focus"),
                              Member(doc, "exercises"))

\* an item of sessions is an object passing LiftingSessionSchema
ValidSessionParsed(parsed) ==
    parsed.ok /\ parsed.doc.kind = "object" /\ ValidLiftingSession(parsed.doc)

ValidSessionText(text) == ValidSessionParsed(json_loads(text))

\* a list of at least one valid session
ValidSessionList(parsed) ==
    /\ parsed.ok
    /\ parsed.doc.kind = "array"
    /\ Len(parsed.doc.members) >= 1
    /\ \A i \in 1..Len(parsed.doc.members) : ValidSessionText(parsed.doc.members[i][2])

ValidMicrocycleFields(weekNumber, sessions) ==
    /\ IsInt(weekNumber)
    /\ weekNumber >= 10
    /\ sessions # Absent
    /\ ValidSessionList(json_loads(sessions))

ValidMicrocycleParsed(parsed) ==
    /\ parsed.ok
    /\ parsed.doc.kind = "object"
    /\ ValidMicrocycleFields(Tenths(Member(parsed.doc, "weekNumber")),
                             Member(parsed.doc, "sessions"))

\* ProgramMicrocycleSchema(**week) succeeds
ValidMicrocycle(text) == ValidMicrocycleParsed(json_loads(text))

\* a list of at least one valid week
ValidWeekList(parsed) ==
    /\ parsed.ok
    /\ parsed.doc.kind = "array"
    /\ Len(parsed.doc.members) >= 1
    /\ \A i \in 1..Len(parsed.doc.members) : ValidMicrocycle(parsed.doc.members[i][2])

ValidFullProgramFields(id, createdAt, title, weeks) ==
    /\ id # Absent
    /\ createdAt # Absent
    /\ title # Absent
    /\ weeks # Absent
    /\ ValidWeekList(json_loads(weeks))

\* FullProgramSchema(**program_data) succeeds
ValidFullProgram(doc) ==
    ValidFullProgramFields(Member(doc, "id"), Member(doc, "createdAt"), Member(doc, "title"),
                           Member(doc, "weeks"))


-----------------------------------------------------------------------------
(* RouterAgent: routing predicates *)

should_route_to_programmer(classification) ==
    classification.intent = "program_generation"

should_route_to_analyst_and_adjustment(classification) ==
    classification.intent \in
        {"technique_question", "motivation_support", "general_chat", "program_adjustment"}

should_route_to_analyst(classification) ==
    classification.intent \in {"technique_question", "motivation_support", "general_chat"}

should_route_to_feedback(classification) ==
    classification.intent = "program_adjustment"

-----------------------------------------------------------------------------
(* BaseAgent._call_gemini: the retry loop around the completion provider *)

\* what client.models.generate_content does on one call
ProviderRaise(e) == [kind |-> "raise", err |-> e, text |-> ""]
ProviderText(txt) == [kind |-> "text", err |-> "", text |-> txt]

ProviderFailures ==
    {ProviderRaise("ConnectionError"), ProviderRaise("ResourceExhausted"), ProviderText("")}

\* the exception an attempt ends with: the provider's own, or the ValueError
\* raised for an empty response.text
AttemptError(outcome) ==
    IF outcome.kind = "raise" THEN outcome.err ELSE "ValueError: Empty response from Gemini"

AttemptFailed_only_on_raise(outcome) == outcome.kind = "raise"

\* an attempt fails when generate_content raises or response.text is falsy
AttemptFailed(outcome) == outcome.kind = "raise" \/ outcome.text = ""

_call_gemini_attempt_once_more(retries, n, outcome) ==
    IF ~AttemptFailed(outcome)
    THEN [ctl |-> "return", text |-> outcome.text, err |-> ""]
    ELSE IF n = retries + 1
         THEN [ctl |-> "raise", text |-> "", err |-> AttemptError(outcome)]
         ELSE [ctl |-> "retry", text |-> "", err |-> AttemptError(outcome)]

\* the body of the loop for attempt number n (1-based)
_call_gemini_attempt(retries, n, outcome) ==
    IF ~AttemptFailed(outcome)
    THEN [ctl |-> "return", text |-> outcome.text, err |-> ""]
    ELSE IF n = retries
         THEN [ctl |-> "raise", text |-> "", err |-> AttemptError(outcome)]
         ELSE [ctl |-> "retry", text |-> "", err |-> AttemptError(outcome)]

\* the statement after the loop, reached when range(1, max_retries + 1) is empty
LoopNeverRan ==
    [ctl |-> "raise", text |-> "", err |-> "Exception: Unexpected error in Gemini API call"]

\* a method that goes on to await _call_gemini
CallsGemini(c, db, locals) ==
    [cache |-> c, db |-> db, status |-> "call_gemini", err |-> "", val |-> locals]

-----------------------------------------------------------------------------
(* RouterAgent.process *)

router_process_begin(c, user_input) ==
    LET user_message == DictGet(user_input, "message", "")
    IN  IF user_message = ""
        THEN Raised(c, <<>>, "ValueError")
        ELSE CallsGemini(c, <<>>, None)

router_process_end_with_default(c, g) ==
    IF g.ctl = "raise" THEN Raised(c, <<>>, g.err)
    ELSE LET parsed == json_loads(g.text)
         IN  IF parsed.ok /\ parsed.doc.kind = "object" /\ ValidIntentClassification(parsed.doc)
             THEN Returned(c, <<>>, model_dump(parsed.doc))
             ELSE Returned(c, <<>>,
                           [intent |-> "general_chat", confidence |-> 0,
                            reasoning |-> "unsure", suggestedAgent |-> "analyst_mentor",
                            requiresProgramContext |-> FALSE, t |-> "classification"])

\* the part of process after _call_gemini: json.loads, validation, model_dump
router_process_end(c, g) ==
    IF g.ctl = "raise" THEN Raised(c, <<>>, g.err)
    ELSE LET parsed == json_loads(g.text)
         IN  IF ~parsed.ok THEN Raised(c, <<>>, "JSONDecodeError")
             ELSE IF parsed.doc.kind # "object" THEN Raised(c, <<>>, "TypeError")
             ELSE IF ~ValidIntentClassification(parsed.doc)
                  THEN Raised(c, <<>>, "ValidationError")
                  ELSE Returned(c, <<>>, model_dump(parsed.doc))

-----------------------------------------------------------------------------
(* AnalystMentorAgent *)

\* a profile as the analyst receives it under context["profile"]: absent, an
\* ExtendedLifterProfileSchema object, or the dict model_dump() makes of one
NoProfile == [kind |-> "none", methodologyId |-> "None"]
ProfileModel(methodologyId) == [kind |-> "model", methodologyId |-> methodologyId]
ProfileDict(methodologyId) == [kind |-> "dict", methodologyId |-> methodologyId]

\* truth value of a methodology id: None (written "None") and "" are falsy
IdTruthy(id) == id \notin {"None", ""}

EmptyKnowledge == PyDict({})

_load_methodology_knowledge_logged(c, st, methodology_id) ==
    LET cache_key == "methodology_kb_" \o methodology_id
        cached == cache_get(c, cache_key)
    IN  IF Truthy(cached)
        THEN Returned(c, <<>>, cached)
        ELSE Returned(c, <<DbSelect("training_methodologies"),
                           DbAdd("agent_conversations", [agent_type |-> "analyst_mentor"]),
                           DbCommit>>, EmptyKnowledge)

_load_methodology_knowledge_strict(c, st, methodology_id) ==
    LET cache_key == "methodology_kb_" \o methodology_id
        cached == cache_get(c, cache_key)
    IN  IF Truthy(cached)
        THEN Returned(c, <<>>, cached)
        ELSE IF methodology_id \notin st.methodologies
             THEN Raised(c, <<DbSelect("training_methodologies")>>, "NoResultFound")
             ELSE LET knowledge ==
                          PyDict({<<"methodology_name", MethodologyName(methodology_id)>>,
                                  <<"knowledge_base", "knowledge_base of " \o methodology_id>>})
                  IN  Returned(cache_set(c, cache_key, knowledge),
                               <<DbSelect("training_methodologies")>>, knowledge)

_load_methodology_knowledge(c, st, methodology_id) ==
    LET cache_key == "methodology_kb_" \o methodology_id
        cached == cache_get(c, cache_key)
    IN  IF Truthy(cached)
        THEN Returned(c, <<>>, cached)
        ELSE IF methodology_id \notin st.methodologies
             THEN Returned(c, <<DbSelect("training_methodologies")>>, EmptyKnowledge)
             ELSE LET knowledge ==
                          PyDict({<<"methodology_name", MethodologyName(methodology_id)>>,
                                  <<"knowledge_base", "knowledge_base of " \o methodology_id>>})
                  IN  Returned(cache_set(c, cache_key, knowledge),
                               <<DbSelect("training_methodologies")>>, knowledge)

analyst_process_begin_load_first(c, st, user_input, context) ==
    LET user_message == DictGet(user_input, "message", "")
        profile == context.profile
        loaded == IF profile.kind = "model" /\ IdTruthy(profile.methodologyId)
                  THEN _load_methodology_knowledge(c, st, profile.methodologyId)
                  ELSE Returned(c, <<>>, EmptyKnowledge)
    IN  IF user_message = ""
        THEN Raised(loaded.cache, loaded.db, "ValueError")
        ELSE IF profile.kind = "dict"
             THEN Raised(c, <<>>, "AttributeError")
             ELSE CallsGemini(loaded.cache, loaded.db, loaded.val)

\* process up to the await of _call_gemini: the message check, the log line
\* reading profile.id, the methodology knowledge and the prompts
analyst_process_begin(c, st, user_input, context) ==
    LET user_message == DictGet(user_input, "message", "")
        profile == context.profile
    IN  IF user_message = ""
        THEN Raised(c, <<>>, "ValueError")
        ELSE IF profile.kind = "dict"
             THEN Raised(c, <<>>, "AttributeError")
             ELSE IF profile.kind = "model" /\ IdTruthy(profile.methodologyId)
                  THEN LET loaded == _load_methodology_knowledge(c, st, profile.methodologyId)
                       IN  CallsGemini(loaded.cache, loaded.db, loaded.val)
                  ELSE CallsGemini(c, <<>>, EmptyKnowledge)

analyst_process_end(c, g) ==
    IF g.ctl = "raise" THEN Raised(c, <<>>, g.err)
    ELSE Returned(c, <<>>,
                  [agent_type |-> "analyst_mentor", response |-> g.text, t |-> "analyst_result"])

-----------------------------------------------------------------------------
(* ProgrammerAgent.process *)

\* process up to the await of _call_gemini: the methodology, the exercises
\* and the system prompt built from them
programmer_process_begin(c, st, context) ==
    LET profile == context.profile
        m == _load_methodology(c, st, profile.methodologyId)
    IN  IF m.status = "raise" THEN m
        ELSE LET ex == _get_exercises_for_profile(m.cache, st, profile.equipmentAccess,
                                                  profile.trainingAge)
             IN  CallsGemini(ex.cache, m.db \o ex.db,
                             [methodology |-> m.val, available_exercises |-> ex.val,
                              t |-> "system_prompt"])

\* the part of process after _call_gemini: json.loads, FullProgramSchema and
\* the returned dict
\* json.loads, FullProgramSchema and the result, given the parsed text
programmer_process_parsed(c, parsed, prompt) ==
    IF ~parsed.ok THEN Raised(c, <<>>, "JSONDecodeError")
    ELSE IF parsed.doc.kind # "object" THEN Raised(c, <<>>, "TypeError")
    ELSE IF ~ValidFullProgram(parsed.doc) THEN Raised(c, <<>>, "ValidationError")
    ELSE Returned(c, <<>>, [program |-> parsed.doc,
                            methodology_used |-> prompt.methodology,
                            t |-> "program_result"])

programmer_process_end(c, g, prompt) ==
    IF g.ctl = "raise" THEN Raised(c, <<>>, g.err)
    ELSE programmer_process_parsed(c, json_loads(g.text), prompt)

\* _call_gemini called on its own returns the text or raises
call_gemini_end(c, g) ==
    IF g.ctl = "raise" THEN Raised(c, <<>>, g.err) ELSE Returned(c, <<>>, PyStr(g.text))

\* the rest of the method that awaited _call_gemini
Continue(o, c, g) ==
    CASE o = "router.process" -> router_process_end(c, g)
      [] o = "analyst.process" -> analyst_process_end(c, g)
      [] o = "programmer.process" -> programmer_process_end(c, g, result.val)
      [] OTHER -> call_gemini_end(c, g)

-----------------------------------------------------------------------------
(* Calls that await the completion provider.  Each provider call is a step: *)
(* the provider's answer is any of the outcomes below.                      *)

RouterOutcomes ==
    ProviderFailures
    \cup {ProviderText(json_dumps(d)) : d \in ClassificationDocs}
    \cup {ProviderText("[]"), ProviderText("This looks like a technique question.")}

AnalystOutcomes ==
    ProviderFailures
    \cup {ProviderText("Focus on board press for lockout strength."),
          ProviderText("{\"adjustedSession\":[]}")}

PlainOutcomes ==
    ProviderFailures \cup {ProviderText("Success"), ProviderText("[]")}

ProgrammerOutcomes ==
    {ProviderRaise("ResourceExhausted"), ProviderText("")}
    \cup {ProviderText(json_dumps(d)) : d \in ProgramDocs}

ProviderOutcomes(o) ==
    CASE o = "router.process" -> RouterOutcomes
      [] o = "analyst.process" -> AnalystOutcomes
      [] o = "programmer.process" -> ProgrammerOutcomes
      [] OTHER -> PlainOutcomes

\* a method call up to its first await of _call_gemini, or to its end when it
\* raises or returns before that
Begin(o, a, b) ==
    /\ op' = o
    /\ arg' = a
    /\ attempt' = 0
    /\ geminiLog' = <<>>
    /\ IF b.status = "call_gemini" /\ max_retries >= 1
       THEN /\ pc' = "gemini"
            /\ cache' = b.cache
            /\ dbLog' = dbLog \o b.db
            /\ store' = ApplyDb(store, b.db)
            /\ result' = [NoResult EXCEPT !.db = b.db, !.val = b.val]
       ELSE LET awaited == b.status = "call_gemini"
                r == IF awaited THEN Continue(o, b.cache, LoopNeverRan) ELSE b
                db == IF awaited THEN b.db \o r.db ELSE b.db
            IN  /\ pc' = "done"
                /\ cache' = r.cache
                /\ dbLog' = dbLog \o db
                /\ store' = ApplyDb(store, db)
                /\ result' = [status |-> r.status, err |-> r.err, val |-> r.val, db |-> db,
                              gemini |-> IF awaited THEN LoopNeverRan ELSE NoGemini]

GeminiAttempt_validates_in_loop ==
    \E outcome \in ProviderOutcomes(op) :
        LET n == attempt + 1
            g == _call_gemini_attempt(max_retries, n, outcome)
        IN  /\ pc = "gemini"
            /\ attempt' = n
            /\ geminiLog' = Append(geminiLog, outcome)
            /\ IF g.ctl = "retry"
                  \/ (g.ctl = "return" /\ n < max_retries
                      /\ Continue(op, cache, g).status = "raise")
               THEN UNCHANGED <<store, cache, pc, op, arg, result, dbLog>>
               ELSE LET r == Continue(op, cache, g)
                    IN  /\ pc' = "done"
                        /\ cache' = r.cache
                        /\ dbLog' = dbLog \o r.db
                        /\ store' = ApplyDb(store, r.db)
                        /\ result' = [status |-> r.status, err |-> r.err, val |-> r.val,
                                      db |-> result.db \o r.db, gemini |-> g]
                        /\ UNCHANGED <<op, arg>>
            /\ UNCHANGED <<agentKind, max_retries, handler, history>>

\* one pass of the loop of _call_gemini and, when the loop ends, the rest of
\* the method that awaited it
GeminiAttempt ==
    \E outcome \in ProviderOutcomes(op) :
        LET n == attempt + 1
            g == _call_gemini_attempt(max_retries, n, outcome)
        IN  /\ pc = "gemini"
            /\ attempt' = n
            /\ geminiLog' = Append(geminiLog, outcome)
            /\ IF g.ctl = "retry"
               THEN UNCHANGED <<store, cache, pc, op, arg, result, dbLog>>
               ELSE LET r == Continue(op, cache, g)
                    IN  /\ pc' = "done"
                        /\ cache' = r.cache
                        /\ dbLog' = dbLog \o r.db
                        /\ store' = ApplyDb(store, r.db)
                        /\ result' = [status |-> r.status, err |-> r.err, val |-> r.val,
                                      db |-> result.db \o r.db, gemini |-> g]
                        /\ UNCHANGED <<op, arg>>
            /\ UNCHANGED <<agentKind, max_retries, handler, history>>

-----------------------------------------------------------------------------
(* SpecAgents: _call_gemini, RouterAgent.process with its routing           *)
(* predicates, and AnalystMentorAgent.process, called on agent instances    *)
(* constructed with any max_retries.                                        *)

UserInputs ==
    {<<>>,
     <<<<"message", "">>>>,
     <<<<"message", "How do I improve my bench lockout?">>>>,
     <<<<"message", "Change my program to five days a week">>>>}

AnalystProfiles ==
    {NoProfile, ProfileModel("westside"), ProfileModel("None"), ProfileDict("westside")}

AgentHistory0 == [calls |-> 0]

InitAgents ==
    /\ store \in {st \in Stores : st.exercises = {}}
    /\ agentKind \in {"base", "router", "analyst"}
    /\ max_retries \in 0..MaxRetriesBound
    /\ cache = EmptyCache
    /\ pc = "idle"
    /\ op = "__init__"
    /\ arg = NoArg
    /\ attempt = 0
    /\ geminiLog = <<>>
    /\ result = NoResult
    /\ dbLog = <<>>
    /\ handler = NoHandler
    /\ history = AgentHistory0

ConstructAgent ==
    \E kind \in {"base", "router", "analyst"}, retries \in 0..MaxRetriesBound :
        /\ pc = "done"
        /\ Construct(kind, retries)
        /\ history' = AgentHistory0
        /\ UNCHANGED <<store, handler>>

CanCall == pc \in {"idle", "done"} /\ history.calls < MaxAgentCalls

CallGeminiDirect ==
    /\ CanCall
    /\ Begin("_call_gemini", NoArg, CallsGemini(cache, <<>>, None))
    /\ history' = [history EXCEPT !.calls = @ + 1]
    /\ UNCHANGED <<agentKind, max_retries, handler>>

CallRouterProcess ==
    \E user_input \in UserInputs :
        /\ CanCall
        /\ agentKind = "router"
        /\ Begin("router.process", [user_input |-> user_input],
                 router_process_begin(cache, user_input))
        /\ history' = [history EXCEPT !.calls = @ + 1]
        /\ UNCHANGED <<agentKind, max_retries, handler>>

CallAnalystProcess ==
    \E user_input \in UserInputs, profile \in AnalystProfiles :
        /\ CanCall
        /\ agentKind = "analyst"
        /\ Begin("analyst.process", [user_input |-> user_input, profile |-> profile],
                 analyst_process_begin(cache, store, user_input, [profile |-> profile]))
        /\ history' = [history EXCEPT !.calls = @ + 1]
        /\ UNCHANGED <<agentKind, max_retries, handler>>

\* classification dicts written out by a caller: any intent string, or no
\* "intent" key at all, which classification.get("intent") reads as None
ClassificationFixtures ==
    {[intent |-> i, confidence |-> 95, reasoning |-> "clear",
      suggestedAgent |-> "analyst_mentor", requiresProgramContext |-> FALSE,
      t |-> "classification"] : i \in Intents \cup {"small_talk", "None"}}

\* the three predicates applied to the classification process just returned,
\* or to one written out by the caller
CallRoutingPredicates ==
    \E c \in ClassificationFixtures \cup
              (IF op = "router.process" /\ result.status = "return" THEN {result.val} ELSE {}) :
        /\ pc \in {"idle", "done"}
        /\ agentKind = "router"
        /\ Finish("should_route_to", [classification |-> c],
                  Returned(cache, <<>>,
                           [programmer |-> should_route_to_programmer(c),
                            analyst    |-> should_route_to_analyst(c),
                            feedback   |-> should_route_to_feedback(c),
                            t          |-> "predicates"]))
        /\ UNCHANGED <<agentKind, max_retries, attempt, geminiLog, handler, history>>

NextAgents ==
    \/ ConstructAgent
    \/ CallGeminiDirect
    \/ CallRouterProcess
    \/ CallAnalystProcess
    \/ GeminiAttempt
    \/ CallRoutingPredicates

SpecAgents == InitAgents /\ [][NextAgents]_vars

\* C2: the routing predicates are mutually exclusive and exhaustive over the
\* five intents: programmer iff program_generation, analyst iff
\* technique_question, motivation_support or general_chat, feedback iff
\* program_adjustment; exactly one of them is true for each of the five.
C2_RoutingPredicates ==
    (op = "should_route_to" /\ pc = "done") =>
        LET c == arg.classification
            r == result.val
        IN  /\ r.programmer <=> (c.intent = "program_generation")
            /\ r.analyst <=> (c.intent \in {"technique_question", "motivation_support",
                                            "general_chat"})
            /\ r.feedback <=> (c.intent = "program_adjustment")
            /\ c.intent \in Intents =>
                  Cardinality({x \in {"programmer", "analyst", "feedback"} : r[x]}) = 1

C2_Witness ==
    /\ op = "should_route_to" /\ pc = "done"
    /\ arg.classification.intent = "program_adjustment"
    /\ arg.classification.confidence = 45
    /\ result.val.feedback /\ ~result.val.analyst /\ ~result.val.programmer

\* C3: read-only law of the Analyst: a call of AnalystMentorAgent.process
\* (with _load_methodology_knowledge inside it) leaves the store as it was, and
\* every session operation it issues is a select on training_methodologies.
C3_AnalystReadOnly ==
    [][(agentKind = "analyst" /\ op' = "analyst.process" /\ agentKind' = "analyst") =>
          /\ store' = store
          /\ \A i \in 1..Len(dbLog') :
                dbLog'[i].verb = "select" /\ dbLog'[i].table = "training_methodologies"]_vars

C3_Witness ==
    /\ op = "analyst.process" /\ pc = "done" /\ result.status = "return"
    /\ DictGet(arg.user_input, "message", "") = "Change my program to five days a week"
    /\ Len(result.db) = 1
    /\ history.calls = 2

\* C4: for max_retries >= 1 a call of _call_gemini makes at most max_retries
\* provider calls, one after another; it returns the text of the first
\* successful attempt and makes no attempt after it; when every attempt fails
\* it has made exactly max_retries attempts and raises the last attempt's error.
C4_BoundedRetry ==
    (max_retries >= 1 /\ op \in {"_call_gemini", "router.process", "analyst.process"}) =>
        LET n == Len(geminiLog)
        IN  /\ attempt = n
            /\ n <= max_retries
            /\ \A i \in 1..(n - 1) : AttemptFailed(geminiLog[i])
            /\ pc = "gemini" => (n < max_retries /\ \A i \in 1..n : AttemptFailed(geminiLog[i]))
            /\ (pc = "done" /\ result.gemini.ctl = "return") =>
                  /\ n >= 1
                  /\ ~AttemptFailed(geminiLog[n])
                  /\ result.gemini.text = geminiLog[n].text
                  /\ op = "_call_gemini" =>
                        (result.status = "return" /\ result.val = PyStr(geminiLog[n].text))
            /\ (pc = "done" /\ result.gemini.ctl = "raise") =>
                  /\ n = max_retries
                  /\ AttemptFailed(geminiLog[n])
                  /\ result.status = "raise"
                  /\ result.err = AttemptError(geminiLog[n])

C4_Witness ==
    /\ op = "_call_gemini" /\ pc = "done"
    /\ max_retries = 3
    /\ result.status = "raise" /\ result.err = "ResourceExhausted"
    /\ Len(geminiLog) = 3
    /\ geminiLog[1] = ProviderRaise("ConnectionError")
    /\ geminiLog[2] = ProviderText("")

\* C7: RouterAgent.process and AnalystMentorAgent.process called with a missing
\* or empty message raise at once: no provider call is made and no store read
\* is issued.
C7_InputErrorFirst ==
    (op \in {"router.process", "analyst.process"}
     /\ DictGet(arg.user_input, "message", "") = "") =>
        /\ pc = "done"
        /\ result.status = "raise"
        /\ result.err = "ValueError"
        /\ attempt = 0
        /\ geminiLog = <<>>
        /\ result.db = <<>>

C7_Witness ==
    /\ op = "analyst.process" /\ pc = "done"
    /\ arg.user_input = <<>>
    /\ arg.profile = ProfileModel("westside")
    /\ "westside" \in store.methodologies
    /\ result.status = "raise"

C20_EmptyIsFailure ==
    op = "_call_gemini" =>
        /\ (pc = "done" /\ result.status = "return") => result.val # PyStr("")
        /\ \A i \in 1..Len(geminiLog) :
              geminiLog[i] = ProviderText("") =>
                  /\ i <= attempt
                  /\ \/ i < Len(geminiLog)
                     \/ pc = "gemini" /\ i < max_retries
                     \/ /\ pc = "done"
                        /\ i = max_retries
                        /\ result.status = "raise"
                        /\ result.err = "ValueError: Empty response from Gemini"
        /\ ( /\ pc = "done"
             /\ max_retries >= 1
             /\ Len(geminiLog) = max_retries
             /\ \A i \in 1..Len(geminiLog) :
                   geminiLog[i].kind = "raise" \/ geminiLog[i].text = "" )
           => result.status = "raise"

\* an empty first completion was retried and the second one returned
C20_Witness ==
    /\ op = "_call_gemini" /\ pc = "done"
    /\ max_retries = 2
    /\ geminiLog = <<ProviderText(""), ProviderText("Success")>>
    /\ attempt = 2
    /\ result.status = "return"
    /\ result.val = PyStr("Success")

-----------------------------------------------------------------------------
(* SpecDispatch: POST /agent/message.  handle_agent_message runs from the   *)
(* request to its response; it is suspended only while an agent awaits the  *)
(* completion provider, and each provider call is a step of its own.        *)

MaxRequests == 2

Messages == {"", "How do I improve my bench lockout?"}

\* message and profile.methodologyId of an AgentMessageRequest
Requests == [message : Messages, methodologyId : {"westside", "None"}]

\* what the handler finds around it: settings.GEMINI_API_KEY set or not, a
\* session from get_db or None, and whether AgentConversation(...) with
\* db.add() and db.commit() will succeed
\* (add_ok and commit_ok say which call raises: without a session neither is
\* made, and after a failed add no commit is made)
Environments ==
    {env \in [api_key : BOOLEAN, has_db : BOOLEAN, add_ok : BOOLEAN, commit_ok : BOOLEAN] :
        /\ ~env.has_db => (env.add_ok /\ env.commit_ok)
        /\ ~env.add_ok => env.commit_ok}

DbAddFails == [verb |-> "add_fails", table |-> "agent_conversations", row |-> NoRow]
DbCommitFails == [verb |-> "commit_fails", table |-> "", row |-> NoRow]

agent_used_without_feedback(classification) ==
    IF should_route_to_analyst(classification) THEN "analyst_mentor"
    ELSE IF should_route_to_programmer(classification) THEN "programmer"
    ELSE "analyst_mentor"

agent_used_when_confident(classification) ==
    IF classification.confidence < 50 THEN "analyst_mentor"
    ELSE IF should_route_to_analyst(classification) THEN "analyst_mentor"
    ELSE IF should_route_to_programmer(classification) THEN "programmer"
    ELSE IF should_route_to_feedback(classification) THEN "feedback"
    ELSE "analyst_mentor"

\* the if / elif / else chain over the routing predicates
agent_used(classification) ==
    IF should_route_to_analyst(classification) THEN "analyst_mentor"
    ELSE IF should_route_to_programmer(classification) THEN "programmer"
    ELSE IF should_route_to_feedback(classification) THEN "feedback"
    ELSE "analyst_mentor"

\* the redirect stubs of the programmer and feedback branches
redirect_stub(agent) ==
    IF agent = "programmer"
    THEN PyDict({<<"message", "To generate a new program, please use the program generation wizard.">>,
                 <<"requires_program_generation", "True">>})
    ELSE PyDict({<<"message", "To adjust your workout, please use the feedback form in your program view.">>,
                 <<"requires_feedback_form", "True">>})

\* get_db around the handler: commit when it returns, rollback when it raises
get_db_exit(env, raised) ==
    IF ~env.has_db THEN <<>> ELSE IF raised THEN <<DbRollback>> ELSE <<DbCommit>>

\* "Save conversation to database": add and commit; a failure is rolled back
\* and logged as a warning
save_conversation(env, row) ==
    IF ~env.has_db THEN <<>>
    ELSE IF ~env.add_ok THEN <<DbAddFails, DbRollback>>
    ELSE IF env.commit_ok
         THEN <<DbAdd("agent_conversations", row), DbCommit>>
         ELSE <<DbAdd("agent_conversations", row), DbCommitFails, DbRollback>>

NewHandler(request, env, st) ==
    [pc |-> "awaiting", request |-> request, env |-> env,
     classification |-> None, agent_used |-> "", agent_response |-> None,
     invoked |-> <<>>, branches |-> 0, router_text |-> "",
     status |-> 0, error |-> "", response |-> None, ops |-> <<>>,
     conversations_before |-> Len(st.conversations), endpoint |-> "/agent/message"]

http_error_logged(h, status_code, e) ==
    [h EXCEPT !.pc = "done", !.status = status_code, !.error = e,
              !.ops = IF h.env.has_db
                      THEN <<DbAdd("agent_conversations",
                                   [agent_type |-> h.agent_used, user_message |-> h.request.message,
                                    intent_classification |-> h.classification]),
                             DbCommit>>
                      ELSE <<>>]

\* raise HTTPException(status_code, ...)
http_error(h, status_code, e) ==
    [h EXCEPT !.pc = "done", !.status = status_code, !.error = e,
              !.ops = get_db_exit(h.env, TRUE)]

respond_propagating(h, agent_response) ==
    LET row == [agent_type |-> h.agent_used, user_message |-> h.request.message,
                intent_classification |-> h.classification]
    IN  IF h.env.has_db /\ ~(h.env.add_ok /\ h.env.commit_ok)
        THEN [h EXCEPT !.pc = "done", !.status = 500, !.error = "SQLAlchemyError",
                       !.agent_response = agent_response,
                       !.ops = <<DbAdd("agent_conversations", row), DbCommitFails, DbRollback>>]
        ELSE [h EXCEPT !.pc = "done", !.status = 200, !.agent_response = agent_response,
                       !.response = [agentUsed |-> h.agent_used,
                                     intentClassification |-> h.classification,
                                     response |-> agent_response, t |-> "AgentMessageResponse"],
                       !.ops = save_conversation(h.env, row) \o get_db_exit(h.env, FALSE)]

\* from "Save conversation to database" to return AgentMessageResponse(...)
respond(h, agent_response) ==
    LET row == [agent_type |-> h.agent_used, user_message |-> h.request.message,
                intent_classification |-> h.classification]
    IN  [h EXCEPT !.pc = "done", !.status = 200, !.agent_response = agent_response,
                  !.response = [agentUsed |-> h.agent_used,
                                intentClassification |-> h.classification,
                                response |-> agent_response, t |-> "AgentMessageResponse"],
                  !.ops = save_conversation(h.env, row) \o get_db_exit(h.env, FALSE)]

\* the agent instance and its running call, as the handler leaves them
AgentIs(kind, c, p, o, a, n, log, res) ==
    /\ agentKind' = kind
    /\ max_retries' = DefaultMaxRetries
    /\ cache' = c
    /\ pc' = p
    /\ op' = o
    /\ arg' = a
    /\ attempt' = n
    /\ geminiLog' = log
    /\ result' = res

\* the handler reaches its next await or its response, having issued ops on
\* the request's session after those in before
HandlerIs(h, before, ops) ==
    /\ handler' = h
    /\ dbLog' = before \o ops
    /\ store' = ApplyDb(store, ops)

AgentResult(r, db, g) ==
    [status |-> r.status, err |-> r.err, val |-> r.val, db |-> db, gemini |-> g]

DispatchHistory0 == [requests |-> 0]

InitDispatch ==
    /\ store \in {st \in Stores : st.exercises = {} /\ st.methodologies = {"westside"}}
    /\ agentKind = "router"
    /\ max_retries = DefaultMaxRetries
    /\ cache = EmptyCache
    /\ pc = "idle"
    /\ op = "__init__"
    /\ arg = NoArg
    /\ attempt = 0
    /\ geminiLog = <<>>
    /\ result = NoResult
    /\ dbLog = <<>>
    /\ handler = [NewHandler([message |-> "", methodologyId |-> "None"],
                             [api_key |-> FALSE, has_db |-> FALSE, add_ok |-> FALSE,
                              commit_ok |-> FALSE],
                             store) EXCEPT !.pc = "idle"]
    /\ history = DispatchHistory0

\* a request arrives: the API key check, RouterAgent(...), and router.process
\* up to its provider call
HandleAgentMessage ==
    \E request \in Requests, env \in Environments :
        LET h0 == NewHandler(request, env, store)
            user_input == <<<<"message", request.message>>>>
            a == [user_input |-> user_input]
            b == router_process_begin(EmptyCache, user_input)
            h1 == [h0 EXCEPT !.invoked = <<"router">>]
        IN  /\ handler.pc \in {"idle", "done"}
            /\ history.requests < MaxRequests
            /\ history' = [history EXCEPT !.requests = @ + 1]
            /\ IF ~env.api_key
               THEN LET h == http_error(h0, 503, "SERVICE_UNAVAILABLE")
                    IN  /\ HandlerIs(h, <<>>, h.ops)
                        /\ UNCHANGED <<agentKind, max_retries, cache, pc, op, arg, attempt,
                                       geminiLog, result>>
               ELSE IF b.status = "call_gemini"
                    THEN /\ HandlerIs(h1, <<>>, <<>>)
                         /\ AgentIs("router", b.cache, "gemini", "router.process", a, 0, <<>>,
                                    NoResult)
                    ELSE LET h == http_error(h1, 500, b.err)
                         IN  /\ HandlerIs(h, <<>>, h.ops)
                             /\ AgentIs("router", b.cache, "done", "router.process", a, 0, <<>>,
                                        AgentResult(b, <<>>, NoGemini))

\* the provider answers the agent the handler awaits: one pass of the loop of
\* _call_gemini and, when the loop ends, the rest of the agent's process and
\* of the handler, up to the next provider call or to the response
ProviderAnswered ==
    \E outcome \in ProviderOutcomes(op) :
        LET n == attempt + 1
            g == _call_gemini_attempt(max_retries, n, outcome)
            log == Append(geminiLog, outcome)
            r == Continue(op, cache, g)
            h == IF op = "router.process" /\ g.ctl = "return"
                 THEN [handler EXCEPT !.router_text = g.text]
                 ELSE handler
        IN  /\ handler.pc = "awaiting"
            /\ pc = "gemini"
            /\ IF g.ctl = "retry"
               THEN /\ attempt' = n
                    /\ geminiLog' = log
                    /\ UNCHANGED <<store, agentKind, max_retries, cache, pc, op, arg, result,
                                   dbLog, handler>>
               ELSE IF r.status = "raise"
               THEN LET hE == http_error(h, 500, r.err)
                    IN  /\ HandlerIs(hE, dbLog, hE.ops)
                        /\ AgentIs(agentKind, r.cache, "done", op, arg, n, log,
                                   AgentResult(r, result.db, g))
               ELSE IF op = "analyst.process"
               THEN LET hR == respond(h, r.val)
                    IN  /\ HandlerIs(hR, dbLog, hR.ops)
                        /\ AgentIs(agentKind, r.cache, "done", op, arg, n, log,
                                   AgentResult(r, result.db, g))
               ELSE LET classification == r.val
                        agent == agent_used(classification)
                        hC == [h EXCEPT !.classification = classification,
                                        !.agent_used = agent, !.branches = @ + 1]
                    IN  IF agent = "analyst_mentor"
                        THEN LET user_input == <<<<"message", h.request.message>>>>
                                 profile == ProfileDict(h.request.methodologyId)
                                 a == [user_input |-> user_input, profile |-> profile]
                                 b == analyst_process_begin(EmptyCache, store, user_input,
                                                            [profile |-> profile])
                                 hA == [hC EXCEPT !.invoked = Append(@, "analyst_mentor")]
                             IN  IF b.status = "call_gemini"
                                 THEN /\ HandlerIs(hA, dbLog, b.db)
                                      /\ AgentIs("analyst", b.cache, "gemini", "analyst.process",
                                                 a, 0, <<>>,
                                                 [NoResult EXCEPT !.db = b.db, !.val = b.val])
                                 ELSE LET hE == http_error(hA, 500, b.err)
                                      IN  /\ HandlerIs(hE, dbLog, b.db \o hE.ops)
                                          /\ AgentIs("analyst", b.cache, "done", "analyst.process",
                                                     a, 0, <<>>, AgentResult(b, b.db, NoGemini))
                        ELSE LET hR == respond(hC, redirect_stub(agent))
                             IN  /\ HandlerIs(hR, dbLog, hR.ops)
                                 /\ AgentIs(agentKind, r.cache, "done", op, arg, n, log,
                                            AgentResult(r, result.db, g))

ProviderAnswers ==
    /\ ProviderAnswered
    /\ UNCHANGED history

NextDispatch ==
    \/ HandleAgentMessage
    \/ ProviderAnswers

SpecDispatch == InitDispatch /\ [][NextDispatch]_vars

\* C1: every request whose router classification has one of the five intents
\* runs exactly one handling branch and is answered with the agentUsed its
\* intent fixes: "analyst_mentor" with the Analyst's response for
\* technique_question, motivation_support and general_chat, "programmer" for
\* program_generation, "feedback" for program_adjustment (a request whose
\* Analyst could not reach the completion provider aside).
C1_AgentFixedByIntent ==
    (handler.pc = "done" /\ handler.classification.t # "None") =>
        LET intent == handler.classification.intent
            expected == CASE intent = "program_generation" -> "programmer"
                          [] intent = "program_adjustment" -> "feedback"
                          [] OTHER -> "analyst_mentor"
        IN  \/ op = "analyst.process" /\ result.gemini.ctl = "raise"
            \/ /\ handler.status = 200
               /\ handler.branches = 1
               /\ handler.response.agentUsed = expected
               /\ expected = "analyst_mentor" =>
                     /\ handler.invoked = <<"router", "analyst_mentor">>
                     /\ handler.response.response.t = "analyst_result"
               /\ expected # "analyst_mentor" =>
                     /\ handler.invoked = <<"router">>
                     /\ handler.response.response = redirect_stub(expected)

\* the completion texts that are JSON of a valid IntentClassification
ValidClassificationTexts ==
    {json_dumps(d) : d \in {x \in ClassificationDocs : ValidIntentClassification(x)}}

\* C6: when the completion text returned for a classification is not valid
\* JSON or does not validate as an IntentClassification, RouterAgent.process
\* raises and returns no classification, and the dispatcher invokes no
\* specialized agent, returns no redirect stub, writes no conversation record
\* and ends the request with an error response.
C6_NoSilentFallback ==
    (handler.pc = "done" /\ handler.router_text # ""
     /\ handler.router_text \notin ValidClassificationTexts) =>
        /\ op = "router.process"
        /\ result.status = "raise"
        /\ result.err \in {"JSONDecodeError", "TypeError", "ValidationError"}
        /\ result.val.t = "None"
        /\ handler.classification.t = "None"
        /\ handler.invoked = <<"router">>
        /\ handler.branches = 0
        /\ handler.agent_response.t = "None"
        /\ handler.response.t = "None"
        /\ handler.status = 500
        /\ Len(store.conversations) = handler.conversations_before
        /\ \A i \in 1..Len(dbLog) : dbLog[i].verb # "add"

C6_Witness ==
    /\ handler.pc = "done"
    /\ handler.router_text = "This looks like a technique question."
    /\ handler.env.has_db /\ handler.env.commit_ok
    /\ handler.status = 500
    /\ result.err = "JSONDecodeError"
    /\ history.requests = 2
    /\ Len(store.conversations) = 1

-----------------------------------------------------------------------------
(* SpecFeedback: FeedbackAgent.adjust_workout.  The provider call inside it *)
(* is synchronous, so a call is one step.                                   *)

MaxFeedbackCalls == 2

FallbackPrefix == "Unable to adjust workout automatically: "

\* the except branch: the original session and a note
adjust_workout_fallback(original_session, e) ==
    [session |-> original_session, reason |-> FallbackPrefix \o e]

adjust_workout_unvalidated(original_session, outcome) ==
    IF outcome.kind = "raise" THEN adjust_workout_fallback(original_session, outcome.err)
    ELSE IF outcome.text = ""
    THEN adjust_workout_fallback(original_session, "Empty response from AI")
    ELSE LET parsed == json_loads(outcome.text)
             res == parsed.doc
         IN  IF ~parsed.ok THEN adjust_workout_fallback(original_session, "JSONDecodeError")
             ELSE IF res.kind # "object" THEN adjust_workout_fallback(original_session, "TypeError")
             ELSE IF Member(res, "adjustedSession") = Absent
             THEN adjust_workout_fallback(original_session, "'adjustedSession'")
             ELSE LET adjusted == json_loads(Member(res, "adjustedSession"))
                  IN  IF Member(res, "reason") = Absent
                      THEN adjust_workout_fallback(original_session, "'reason'")
                      ELSE [session |-> adjusted.doc, reason |-> Member(res, "reason")]

\* adjust_workout given what generate_content does: the pair it returns
adjust_workout(original_session, outcome) ==
    IF outcome.kind = "raise" THEN adjust_workout_fallback(original_session, outcome.err)
    ELSE IF outcome.text = ""
    THEN adjust_workout_fallback(original_session, "Empty response from AI")
    ELSE LET parsed == json_loads(outcome.text)
             res == parsed.doc
         IN  IF ~parsed.ok THEN adjust_workout_fallback(original_session, "JSONDecodeError")
             ELSE IF res.kind # "object" THEN adjust_workout_fallback(original_session, "TypeError")
             ELSE IF Member(res, "adjustedSession") = Absent
             THEN adjust_workout_fallback(original_session, "'adjustedSession'")
             ELSE LET adjusted == json_loads(Member(res, "adjustedSession"))
                  IN  IF ~adjusted.ok \/ adjusted.doc.kind # "object"
                      THEN adjust_workout_fallback(original_session, "TypeError")
                      ELSE IF ~ValidLiftingSession(adjusted.doc)
                      THEN adjust_workout_fallback(original_session, "ValidationError")
                      ELSE IF Member(res, "reason") = Absent
                      THEN adjust_workout_fallback(original_session, "'reason'")
                      ELSE [session |-> adjusted.doc, reason |-> Member(res, "reason")]

\* sessions a caller holds: LiftingSessionSchema objects, so valid ones
OriginalSessions == {sd \in SessionDocs : ValidLiftingSession(sd)}

FeedbackCategories == {<<"injury">>, <<"low_energy">>, <<"muscle_fatigue", "other">>}
FeedbackTexts == {"None", "My shoulder hurts"}

FeedbackOutcomes ==
    ProviderFailures
    \cup {ProviderText(json_dumps(d)) : d \in AdjustDocs}
    \cup {ProviderText("[]"), ProviderText("I reduced the volume.")}

FeedbackHistory0 == [calls |-> 0]

InitFeedback ==
    /\ store \in {st \in Stores : st.exercises = {} /\ st.methodologies = {}}
    /\ agentKind = "feedback"
    /\ max_retries = 1
    /\ cache = EmptyCache
    /\ pc = "idle"
    /\ op = "__init__"
    /\ arg = NoArg
    /\ attempt = 0
    /\ geminiLog = <<>>
    /\ result = NoResult
    /\ dbLog = <<>>
    /\ handler = NoHandler
    /\ history = FeedbackHistory0

CallAdjustWorkout ==
    \E original_session \in OriginalSessions, feedback_categories \in FeedbackCategories,
       feedback_text \in FeedbackTexts, outcome \in FeedbackOutcomes :
        /\ history.calls < MaxFeedbackCalls
        /\ history' = [history EXCEPT !.calls = @ + 1]
        /\ op' = "adjust_workout"
        /\ arg' = [original_session |-> original_session,
                   feedback_categories |-> feedback_categories,
                   feedback_text |-> feedback_text]
        /\ attempt' = 1
        /\ geminiLog' = <<outcome>>
        /\ result' = [NoResult EXCEPT !.status = "return",
                                      !.val = adjust_workout(original_session, outcome)]
        /\ pc' = "done"
        /\ UNCHANGED <<store, agentKind, max_retries, cache, dbLog, handler>>

NextFeedback == CallAdjustWorkout

SpecFeedback == InitFeedback /\ [][NextFeedback]_vars

\* the answers that carry a valid adjusted session and a reason
AdjustedAnswers ==
    {json_dumps(AdjustDoc(json_dumps(SessionDoc("1", "Recovery", json_dumps(JsonArray(<<json_dumps(e)>>)))),
                          Quote("Reduced volume"))) :
        e \in {ExerciseDoc("Squat", "3", "5", "7", "180"),
               ExerciseDoc("Pause Bench Press", "4", "3-5", "8.5", "120")}}

\* C5: fallback law of adjust_workout: when the completion call raises,
\* returns empty text or text that is not JSON, when the answer lacks the
\* adjustedSession or reason key, or when its adjustedSession fails session
\* validation, adjust_workout does not raise and returns the input session
\* unchanged with a non-empty reason that indicates the failure.
C5_FallbackLaw ==
    (op = "adjust_workout" /\ pc = "done"
     /\ (geminiLog[1].kind = "raise" \/ geminiLog[1].text \notin AdjustedAnswers)) =>
        /\ result.status = "return"
        /\ result.val.session = arg.original_session
        /\ result.val.reason # ""
        /\ \E e \in {"ConnectionError", "ResourceExhausted", "Empty response from AI",
                     "JSONDecodeError", "TypeError", "ValidationError",
                     "'adjustedSession'", "'reason'"} :
              result.val.reason = FallbackPrefix \o e

C5_Witness ==
    /\ op = "adjust_workout" /\ pc = "done"
    /\ arg.original_session =
         SessionDoc("1", "Recovery",
                    json_dumps(JsonArray(<<json_dumps(ExerciseDoc("Pause Bench Press", "4", "3-5", "8.5", "120"))>>)))
    /\ geminiLog[1].text =
         json_dumps(AdjustDoc(json_dumps(SessionDoc("1", "Recovery",
                        json_dumps(JsonArray(<<json_dumps(ExerciseDoc("Squat", "3", "5", "11", "180"))>>)))),
                    Quote("Reduced volume")))
    /\ result.val.session = arg.original_session
    /\ result.val.reason = FallbackPrefix \o "ValidationError"

-----------------------------------------------------------------------------
(* SpecProgrammer: ProgrammerAgent.process called on one instance, over any *)
(* methodologies and exercises tables.  The instance is constructed with    *)
(* max_retries = 1; the retry loop itself is exercised in SpecAgents.       *)

MaxProgrammerCalls == 2

ProgrammerProfiles ==
    [methodologyId : {"westside"}, equipmentAccess : EquipmentTiers, trainingAge : TrainingAges]

ProgrammerHistory0 == [calls |-> 0]

InitProgrammer ==
    /\ store \in {st \in Stores : st.methodologies \subseteq {"westside"}}
    /\ agentKind = "programmer"
    /\ max_retries = 1
    /\ cache = EmptyCache
    /\ pc = "idle"
    /\ op = "__init__"
    /\ arg = NoArg
    /\ attempt = 0
    /\ geminiLog = <<>>
    /\ result = NoResult
    /\ dbLog = <<>>
    /\ handler = NoHandler
    /\ history = ProgrammerHistory0

CallProgrammerProcess ==
    \E profile \in ProgrammerProfiles :
        /\ pc \in {"idle", "done"}
        /\ history.calls < MaxProgrammerCalls
        /\ Begin("programmer.process", profile,
                 programmer_process_begin(cache, store, [profile |-> profile]))
        /\ history' = [history EXCEPT !.calls = @ + 1]
        /\ UNCHANGED <<agentKind, max_retries, handler>>

NextProgrammer ==
    \/ CallProgrammerProcess
    \/ GeminiAttempt

SpecProgrammer == InitProgrammer /\ [][NextProgrammer]_vars

\* C11: an exercise of the store is in the list ProgrammerAgent passes into
\* the prompt iff its complexity is allowed for the profile's trainingAge
\* (novice: beginner; intermediate: beginner, intermediate; advanced: all
\* three) and its equipment is a subset of the equipment of the profile's
\* equipmentAccess tier.
C11_PromptExercises ==
    (op = "programmer.process" /\ pc = "gemini") =>
        LET listed == Elements(result.val.available_exercises)
            allowed == CASE arg.trainingAge = "novice" -> {"beginner"}
                         [] arg.trainingAge = "intermediate" -> {"beginner", "intermediate"}
                         [] OTHER -> {"beginner", "intermediate", "advanced"}
            garage == {"barbell", "rack", "bench"}
            commercial == garage \cup {"dumbbells", "cable", "machines"}
            equipment == CASE arg.equipmentAccess = "garage" -> garage
                           [] arg.equipmentAccess = "commercial" -> commercial
                           [] OTHER -> commercial \cup {"bands", "chains", "specialty_bars"}
        IN  /\ listed \subseteq store.exercises
            /\ \A id \in store.exercises :
                  id \in listed <=> (/\ Exercise(id).complexity \in allowed
                                     /\ Exercise(id).equipment \subseteq equipment)

C11_Witness ==
    /\ op = "programmer.process" /\ pc = "gemini"
    /\ arg.trainingAge = "novice" /\ arg.equipmentAccess = "garage"
    /\ store.exercises = {1, 5}
    /\ result.val.available_exercises = PyList(<<1>>)
    /\ history.calls = 2

\* C16: when no methodology with profile.methodologyId is in the store,
\* ProgrammerAgent.process raises, makes no completion-provider call, returns
\* no program, and leaves the cache without an entry for that methodology.
C16_MissingMethodology ==
    (op = "programmer.process" /\ arg.methodologyId \notin store.methodologies) =>
        /\ pc = "done"
        /\ result.status = "raise"
        /\ result.val.t = "None"
        /\ attempt = 0
        /\ geminiLog = <<>>
        /\ ("methodology_" \o arg.methodologyId) \notin DOMAIN cache

C16_Witness ==
    /\ op = "programmer.process" /\ pc = "done"
    /\ store.methodologies = {}
    /\ store.exercises = {1, 3}
    /\ result.status = "raise" /\ result.err = "NoResultFound"
    /\ result.db = <<DbSelect("training_methodologies")>>
    /\ history.calls = 2

\* sequence s is a prefix of sequence t
IsPrefix(s, t) == Len(s) <= Len(t) /\ SubSeq(t, 1, Len(s)) = s

WorkingStore(env) == env.has_db /\ env.add_ok /\ env.commit_ok

C14_RedirectStubs ==
    (handler.pc = "done" /\ handler.classification.t # "None"
     /\ handler.classification.intent \in {"program_generation", "program_adjustment"}) =>
        LET generation == handler.classification.intent = "program_generation"
        IN  /\ handler.status = 200
            /\ handler.response.agentUsed = (IF generation THEN "programmer" ELSE "feedback")
            /\ handler.response.response.t = "dict"
            /\ <<(IF generation THEN "requires_program_generation" ELSE "requires_feedback_form"),
                 "True">> \in handler.response.response.d
            /\ handler.invoked = <<"router">>
            /\ agentKind = "router"
            /\ op = "router.process"
            /\ attempt = Len(geminiLog)
            /\ \A i \in 1..Len(dbLog) : dbLog[i].verb # "select"

C14_Witness ==
    /\ handler.pc = "done"
    /\ handler.classification.t = "classification"
    /\ handler.classification.intent = "program_generation"
    /\ handler.response.agentUsed = "programmer"
    /\ handler.env.has_db
    /\ Len(geminiLog) = 2
    /\ history.requests = 1

\* C15: within one request the router's classification call has returned a
\* validated classification before any specialized agent begins, and at no
\* point are two agents' completion calls in flight: while the router's call
\* is awaited no other agent exists, and an agent other than the router runs
\* only after the router's call has ended.
C15_RouterFirst ==
    /\ (handler.pc = "awaiting" /\ op = "router.process") =>
          /\ pc = "gemini"
          /\ handler.invoked = <<"router">>
          /\ handler.classification.t = "None"
          /\ handler.branches = 0
    /\ (handler.pc \in {"awaiting", "done"} /\ Len(handler.invoked) >= 2) =>
          /\ handler.invoked = <<"router", "analyst_mentor">>
          /\ op = "analyst.process"
          /\ handler.router_text \in ValidClassificationTexts
          /\ handler.classification.t = "classification"
          /\ handler.classification = model_dump(json_loads(handler.router_text).doc)
    /\ (handler.pc \in {"awaiting", "done"} /\ handler.invoked # <<>>
        /\ op = "analyst.process") =>
          Len(handler.invoked) = 2

C15_Witness ==
    /\ handler.invoked = <<"router", "analyst_mentor">>
    /\ op = "analyst.process"
    /\ handler.classification.intent = "motivation_support"
    /\ handler.router_text \in ValidClassificationTexts

-----------------------------------------------------------------------------
(* SpecLogging: the two writers of agent_conversations, the dispatcher and  *)
(* BaseAgent._log_conversation, each with a store that may fail the write.  *)

\* how the write goes: well, on an agent without a session, or with add or
\* commit raising
LogFaults == {"none", "no_session", "add", "commit"}

\* _log_conversation: everything is inside try / except Exception, which logs
\* the error and returns
_log_conversation(c, fault, row) ==
    CASE fault = "none" -> Returned(c, <<DbAdd("agent_conversations", row), DbCommit>>, None)
      [] fault = "no_session" -> Returned(c, <<>>, None)
      [] fault = "add" -> Returned(c, <<DbAddFails>>, None)
      [] OTHER -> Returned(c, <<DbAdd("agent_conversations", row), DbCommitFails>>, None)

CallLogConversation ==
    \E fault \in LogFaults, user_message \in {"How do I improve my bench lockout?"} :
        /\ handler.pc \in {"idle", "done"}
        /\ pc \in {"idle", "done"}
        /\ history.requests < MaxRequests
        /\ history' = [history EXCEPT !.requests = @ + 1]
        /\ Finish("_log_conversation", [fault |-> fault, user_message |-> user_message],
                  _log_conversation(cache, fault,
                                    [agent_type |-> "router", user_message |-> user_message,
                                     intent_classification |-> None]))
        /\ UNCHANGED <<agentKind, max_retries, attempt, geminiLog, handler>>

NextLogging ==
    \/ HandleAgentMessage
    \/ ProviderAnswers
    \/ CallLogConversation

SpecLogging == InitDispatch /\ [][NextLogging]_vars

\* the write of the conversation record was tried in the last step of the
\* request and raised
LoggingFailed ==
    \E i \in 1..Len(handler.ops) : handler.ops[i].verb \in {"add_fails", "commit_fails"}

\* C12: conversation logging never fails a request: when adding or committing
\* the AgentConversation record raises, the dispatcher still answers 200 with
\* the agentUsed, intentClassification and response it returns when the write
\* succeeds; and _log_conversation never raises.
C12_LoggingNeverFails ==
    /\ (op = "_log_conversation" /\ pc = "done") => result.status = "return"
    /\ (handler.pc = "done" /\ LoggingFailed) =>
          LET written == [handler EXCEPT !.env.add_ok = TRUE, !.env.commit_ok = TRUE]
              expected == CASE handler.classification.intent = "program_generation" -> "programmer"
                            [] handler.classification.intent = "program_adjustment" -> "feedback"
                            [] OTHER -> "analyst_mentor"
          IN  /\ handler.status = 200
              /\ handler.error = ""
              /\ handler.response.agentUsed = expected
              /\ handler.response.intentClassification = handler.classification
              /\ handler.response.response = handler.agent_response
              /\ handler.response = respond(written, handler.agent_response).response

C12_Witness ==
    /\ handler.pc = "done"
    /\ handler.env.add_ok /\ ~handler.env.commit_ok
    /\ LoggingFailed
    /\ handler.status = 200
    /\ handler.response.agentUsed = "feedback"
    /\ op = "router.process"
    /\ Len(store.conversations) = 1

-----------------------------------------------------------------------------
(* SpecCheckIn: CheckInAgent.analyze_progress and the endpoint              *)
(* POST /feedback/check-in around it.  The provider call is synchronous, so *)
(* each call is one step.                                                   *)

MaxSessions == 2
MaxCheckInCalls == 1

\* the Python value of a member of the analysis: a list of phrases, or the
\* string itself
json_value(text) ==
    LET parsed == json_loads(text)
    IN  IF parsed.ok /\ parsed.doc.kind = "array"
        THEN PyList([i \in 1..Len(parsed.doc.members) |->
                        CHOOSE p \in CheckInPhrases : Quote(p) = parsed.doc.members[i][2]])
        ELSE PyStr(text)

\* CheckInMetrics; adherenceRate is kept as the fraction it was computed from
CheckInMetrics(completed, planned) ==
    [sessionsCompleted |-> completed, sessionsPlanned |-> planned,
     adherenceRate |-> [num |-> completed, den |-> planned]]

\* the except branch of analyze_progress
analyze_progress_fallback(metrics) ==
    [insights |-> PyList(<<"Completed " \o ToString(metrics.sessionsCompleted) \o " of "
                           \o ToString(metrics.sessionsPlanned) \o " sessions">>),
     recommendations |-> PyList(<<"Continue with your current program">>),
     adjustments_needed |-> FALSE,
     adjusted_program |-> None]

analyze_progress_unguarded(c, metrics, outcome) ==
    IF outcome.kind = "raise" THEN Returned(c, <<>>, analyze_progress_fallback(metrics))
    ELSE IF outcome.text = "" THEN Returned(c, <<>>, analyze_progress_fallback(metrics))
    ELSE LET parsed == json_loads(outcome.text)
             res == parsed.doc
         IN  IF ~parsed.ok THEN Raised(c, <<>>, "JSONDecodeError")
             ELSE IF res.kind # "object" THEN Raised(c, <<>>, "AttributeError")
             ELSE Returned(c, <<>>, analyze_progress_fallback(metrics))

\* analyze_progress given what generate_content does
analyze_progress(c, metrics, outcome) ==
    IF outcome.kind = "raise" THEN Returned(c, <<>>, analyze_progress_fallback(metrics))
    ELSE IF outcome.text = "" THEN Returned(c, <<>>, analyze_progress_fallback(metrics))
    ELSE LET parsed == json_loads(outcome.text)
             res == parsed.doc
         IN  IF ~parsed.ok THEN Returned(c, <<>>, analyze_progress_fallback(metrics))
             ELSE IF res.kind # "object"
             THEN Returned(c, <<>>, analyze_progress_fallback(metrics))
             ELSE Returned(c, <<>>,
                    [insights |-> IF Member(res, "insights") = Absent THEN PyList(<<>>)
                                  ELSE json_value(Member(res, "insights")),
                     recommendations |-> IF Member(res, "recommendations") = Absent
                                         THEN PyList(<<>>)
                                         ELSE json_value(Member(res, "recommendations")),
                     adjustments_needed |-> Member(res, "programAdjustmentsNeeded") = "true",
                     adjusted_program |-> None])

CheckInOutcomes ==
    ProviderFailures
    \cup {ProviderText(json_dumps(d)) : d \in CheckInDocs}
    \cup {ProviderText(json_dumps(a)) : a \in PhraseArrays}
    \cup {ProviderText("Adherence is high.")}

\* completedAt of a session of the progress history: missing, a local
\* timestamp inside or before the period, or a timestamp with a UTC offset
\* (a trailing Z) inside the period
CompletedAt == {"None", "in_period", "before_period", "in_period_utc"}

ProgressHistories ==
    UNION {[1..n -> [completedAt : CompletedAt]] : n \in 0..MaxSessions}

CheckInTypes == {"daily", "weekly"}

\* what the provider does during a request to the endpoint: a failure, a
\* complete analysis, an analysis whose insights is a string
EndpointOutcomes ==
    {o \in ProviderFailures : o.kind = "raise"}
    \cup {ProviderText(json_dumps(CheckInDoc("[\"Adherence is high\",\"Recovery looks good\"]",
                                             "[\"Add a deload week\"]", "true"))),
          ProviderText(json_dumps(CheckInDoc(Quote("Adherence is high"),
                                             "[\"Add a deload week\"]", "false")))}

CheckInFailed(e) ==
    [status |-> 500, error |-> e, type |-> "", metrics |-> None, analysis |-> None]

\* perform_check_in: the period filter, the metrics, the analysis and the
\* response; any exception becomes HTTP 500
perform_check_in(c, check_in_type, sessions, api_key, outcome) ==
    LET in_period == SelectSeq(sessions, LAMBDA s : s.completedAt = "in_period")
        sessions_completed == Len(in_period)
        sessions_planned == IF check_in_type = "daily" THEN 1 ELSE 4
        metrics == CheckInMetrics(sessions_completed, sessions_planned)
        analysis == IF ~api_key
                    THEN [insights |-> PyList(<<"MOCK: You completed most of your workouts this period">>),
                          recommendations |-> PyList(<<"MOCK: Consider maintaining current intensity">>),
                          adjustments_needed |-> FALSE,
                          adjusted_program |-> None]
                    ELSE analyze_progress(c, metrics, outcome).val
    IN  IF \E i \in 1..Len(sessions) : sessions[i].completedAt = "in_period_utc"
        THEN CheckInFailed("TypeError")
        ELSE IF sessions_completed > sessions_planned
        THEN CheckInFailed("ValidationError")
        ELSE IF analysis.insights.t # "list" \/ analysis.recommendations.t # "list"
        THEN CheckInFailed("ValidationError")
        ELSE [status |-> 200, error |-> "", type |-> check_in_type, metrics |-> metrics,
              analysis |-> analysis]

CheckInHistory0 == [calls |-> 0]

InitCheckIn ==
    /\ store \in {st \in Stores : st.exercises = {} /\ st.methodologies = {}}
    /\ agentKind = "check_in"
    /\ max_retries = 1
    /\ cache = EmptyCache
    /\ pc = "idle"
    /\ op = "__init__"
    /\ arg = NoArg
    /\ attempt = 0
    /\ geminiLog = <<>>
    /\ result = NoResult
    /\ dbLog = <<>>
    /\ handler = NoHandler
    /\ history = CheckInHistory0

CallAnalyzeProgress ==
    \E completed \in 0..MaxSessions, planned \in {1, 4}, outcome \in CheckInOutcomes :
        /\ completed <= planned
        /\ history.calls < MaxCheckInCalls
        /\ history' = [history EXCEPT !.calls = @ + 1]
        /\ Finish("analyze_progress", CheckInMetrics(completed, planned),
                  analyze_progress(cache, CheckInMetrics(completed, planned), outcome))
        /\ attempt' = 1
        /\ geminiLog' = <<outcome>>
        /\ UNCHANGED <<agentKind, max_retries, handler>>

PerformCheckIn ==
    \E check_in_type \in CheckInTypes, sessions \in ProgressHistories, api_key \in BOOLEAN,
       outcome \in EndpointOutcomes :
        /\ api_key \/ outcome = CHOOSE o \in EndpointOutcomes : o.kind = "raise"
        /\ history.calls < MaxCheckInCalls
        /\ history' = [history EXCEPT !.calls = @ + 1]
        /\ Finish("perform_check_in",
                  [type |-> check_in_type, sessions |-> sessions, api_key |-> api_key],
                  Returned(cache, <<>>,
                           perform_check_in(cache, check_in_type, sessions, api_key, outcome)))
        /\ attempt' = IF api_key THEN 1 ELSE 0
        /\ geminiLog' = IF api_key THEN <<outcome>> ELSE <<>>
        /\ UNCHANGED <<agentKind, max_retries, handler>>

NextCheckIn ==
    \/ CallAnalyzeProgress
    \/ PerformCheckIn

SpecCheckIn == InitCheckIn /\ [][NextCheckIn]_vars

\* the texts that are a JSON object
CheckInObjectTexts == {json_dumps(d) : d \in CheckInDocs}

\* C18: analyze_progress never raises, and whenever the completion call
\* raises, returns empty text or returns text that is not a JSON object, it
\* returns exactly one insight built from sessionsCompleted and
\* sessionsPlanned, exactly one static recommendation, adjustments_needed
\* false and no adjusted program.
C18_CheckInFallback ==
    (op = "analyze_progress" /\ pc = "done") =>
        /\ result.status = "return"
        /\ (geminiLog[1].kind = "raise" \/ geminiLog[1].text \notin CheckInObjectTexts) =>
            /\ result.val.insights =
                   PyList(<<"Completed " \o ToString(arg.sessionsCompleted) \o " of "
                            \o ToString(arg.sessionsPlanned) \o " sessions">>)
            /\ result.val.recommendations = PyList(<<"Continue with your current program">>)
            /\ result.val.adjustments_needed = FALSE
            /\ result.val.adjusted_program = None

\* a completion that is a JSON array was answered with the fallback for two
\* of four planned sessions
C18_Witness ==
    /\ op = "analyze_progress"
    /\ pc = "done"
    /\ geminiLog[1].text \in {json_dumps(a) : a \in PhraseArrays}
    /\ arg.sessionsCompleted = 2
    /\ arg.sessionsPlanned = 4
    /\ result.status = "return"
    /\ result.val.insights = PyList(<<"Completed 2 of 4 sessions">>)

\* C19: for every check-in type and every progress history, whether the
\* completion call succeeds or fails, perform_check_in answers with a
\* check-in analysis (never an error) whose metrics satisfy adherenceRate =
\* sessionsCompleted / sessionsPlanned with 0 <= adherenceRate <= 1.
C19_CheckInNeverFails ==
    (op = "perform_check_in" /\ pc = "done") =>
        /\ result.val.status = 200
        /\ result.val.metrics.adherenceRate =
               [num |-> result.val.metrics.sessionsCompleted,
                den |-> result.val.metrics.sessionsPlanned]
        /\ 0 <= result.val.metrics.sessionsCompleted
        /\ result.val.metrics.sessionsCompleted <= result.val.metrics.sessionsPlanned

-----------------------------------------------------------------------------
(* SpecGenerate: POST /programs/generate-v2 next to POST /agent/message.    *)
(* generate_program_v2 checks the API key and profile.methodologyId, runs   *)
(* ProgrammerAgent.process, saves the program and answers.                  *)

\* profile.methodologyId, equipmentAccess and trainingAge of the request
V2Profiles ==
    [methodologyId : {"westside", "sheiko", "None"}, equipmentAccess : {"garage"},
     trainingAge : {"novice"}]

NoHttpError == [status_code |-> 0, code |-> ""]

\* the two checks at the head of generate_program_v2
generate_v2_precheck(env, profile) ==
    IF ~env.api_key THEN [status_code |-> 503, code |-> "SERVICE_UNAVAILABLE"]
    ELSE IF profile.methodologyId = "None"
    THEN [status_code |-> 400, code |-> "MISSING_METHODOLOGY"]
    ELSE NoHttpError

generation_failed(h, status_code, e) == http_error(h, 500, "GENERATION_FAILED")

\* except HTTPException: raise
reraise_http_exception(h, status_code, e) == http_error(h, status_code, e)

DbAddProgramFails == [verb |-> "add_fails", table |-> "programs", row |-> NoRow]

\* "if db is not None": add and commit the Program row; a failure is rolled
\* back and logged as a warning
save_program(env, row) ==
    IF ~env.has_db THEN <<>>
    ELSE IF ~env.add_ok THEN <<DbAddProgramFails, DbRollback>>
    ELSE IF env.commit_ok
         THEN <<DbAdd("programs", row), DbCommit>>
         ELSE <<DbAdd("programs", row), DbCommitFails, DbRollback>>

\* from program.id = str(uuid4()) to return ProgramResponse(...)
respond_v2(h, res) ==
    [h EXCEPT !.pc = "done", !.status = 200, !.agent_response = res,
              !.response = [program |-> res.program, id |-> "program_2",
                            methodology_used |-> res.methodology_used,
                            t |-> "ProgramResponse"],
              !.ops = save_program(h.env, [id |-> "program_2",
                                           methodology_id |-> h.request.methodologyId])
                      \o get_db_exit(h.env, FALSE)]

\* a request arrives: the checks, ProgrammerAgent(...), and process up to its
\* provider call
V2Started(h1, profile, b) ==
    IF b.status = "call_gemini"
    THEN /\ HandlerIs([h1 EXCEPT !.pc = "awaiting_v2"], <<>>, b.db)
         /\ AgentIs("programmer", b.cache, "gemini", "programmer.process", profile, 0, <<>>,
                    [NoResult EXCEPT !.db = b.db, !.val = b.val])
    ELSE /\ HandlerIs([http_error(h1, 500, b.err) EXCEPT !.ops = b.db \o @], <<>>,
                      b.db \o get_db_exit(h1.env, TRUE))
         /\ AgentIs("programmer", b.cache, "done", "programmer.process", profile, 0, <<>>,
                    AgentResult(b, b.db, NoGemini))

V2Refused(h) ==
    /\ HandlerIs(h, <<>>, h.ops)
    /\ UNCHANGED <<agentKind, max_retries, cache, pc, op, arg, attempt, geminiLog, result>>

GenerateProgramV2 ==
    \E profile \in V2Profiles, env \in Environments :
        /\ handler.pc \in {"idle", "done"}
        /\ history.requests < MaxRequests
        /\ history' = [history EXCEPT !.requests = @ + 1]
        /\ IF generate_v2_precheck(env, profile) # NoHttpError
           THEN V2Refused(reraise_http_exception(
                    [NewHandler([message |-> "", methodologyId |-> profile.methodologyId],
                                env, store) EXCEPT !.endpoint = "/programs/generate-v2"],
                    generate_v2_precheck(env, profile).status_code,
                    generate_v2_precheck(env, profile).code))
           ELSE V2Started(
                    [NewHandler([message |-> "", methodologyId |-> profile.methodologyId],
                                env, store) EXCEPT !.endpoint = "/programs/generate-v2",
                                                   !.invoked = <<"programmer">>,
                                                   !.agent_used = "programmer"],
                    profile,
                    programmer_process_begin(EmptyCache, store, [profile |-> profile]))

\* the loop of _call_gemini has ended: the rest of process and of the handler
V2Finished(n, log, g, r, h) ==
    /\ HandlerIs(h, dbLog, h.ops)
    /\ AgentIs(agentKind, r.cache, "done", op, arg, n, log, AgentResult(r, result.db, g))

V2AfterProcess(n, log, g, r) ==
    V2Finished(n, log, g, r,
               IF r.status = "raise" THEN http_error(handler, 500, r.err)
               ELSE respond_v2(handler, r.val))

V2AfterAttempt(n, log, g) ==
    IF g.ctl = "retry"
    THEN /\ attempt' = n
         /\ geminiLog' = log
         /\ UNCHANGED <<store, agentKind, max_retries, cache, pc, op, arg, result, dbLog,
                        handler>>
    ELSE V2AfterProcess(n, log, g, Continue(op, cache, g))

\* the provider answers the ProgrammerAgent that generate_program_v2 awaits
ProgrammerAnswers ==
    \E outcome \in ProviderOutcomes("programmer.process") :
        /\ handler.pc = "awaiting_v2"
        /\ pc = "gemini"
        /\ UNCHANGED history
        /\ V2AfterAttempt(attempt + 1, Append(geminiLog, outcome),
                          _call_gemini_attempt(max_retries, attempt + 1, outcome))

NextGenerate ==
    \/ HandleAgentMessage
    \/ ProviderAnswers
    \/ GenerateProgramV2
    \/ ProgrammerAnswers

SpecGenerate == InitDispatch /\ [][NextGenerate]_vars

\* the request of the handler is one the preconditions refuse: no API key,
\* or generate-v2 with a key and no profile.methodologyId
C21_Refusal(h) ==
    IF ~h.env.api_key THEN [status_code |-> 503, code |-> "SERVICE_UNAVAILABLE"]
    ELSE IF h.endpoint = "/programs/generate-v2" /\ h.request.methodologyId = "None"
    THEN [status_code |-> 400, code |-> "MISSING_METHODOLOGY"]
    ELSE [status_code |-> 0, code |-> ""]

\* C21: with no API key both endpoints answer 503, and generate-v2 with a key
\* but no profile.methodologyId answers 400; the error reaches the client with
\* that status (not as a 500), no agent was constructed, and the step that
\* took the request made no provider call and left the store as it was.
C21_PrechecksFirst ==
    /\ [](handler.pc = "done" /\ C21_Refusal(handler).status_code # 0 =>
            /\ handler.status = C21_Refusal(handler).status_code
            /\ handler.error = C21_Refusal(handler).code
            /\ handler.invoked = <<>>
            /\ \A i \in 1..Len(handler.ops) : handler.ops[i].verb \in {"rollback"})
    /\ [][(history'.requests # history.requests /\ C21_Refusal(handler').status_code # 0) =>
            /\ handler'.pc = "done"
            /\ store' = store
            /\ UNCHANGED <<agentKind, cache, pc, op, arg, attempt, geminiLog, result>>]_vars

\* generate-v2 answered 400 for a profile without methodology, after a
\* request that had run agents
C21_Witness ==
    /\ handler.pc = "done"
    /\ handler.endpoint = "/programs/generate-v2"
    /\ handler.env.api_key
    /\ handler.env.has_db
    /\ handler.status = 400
    /\ handler.error = "MISSING_METHODOLOGY"
    /\ op = "analyst.process"
    /\ history.requests = 2

-----------------------------------------------------------------------------
(* SpecLookups: AnalystMentorAgent._load_methodology_knowledge and          *)
(* ProgrammerAgent._get_available_equipment called on their own.            *)

MaxLookupCalls == 2

\* methodology_id of a direct call; "None" is Python's None
KnowledgeIds == MethodologyIds \cup {"None"}

\* equipment_access of a direct call, with one value outside the table
EquipmentAccesses == EquipmentTiers \cup {"home"}

LookupHistory0 == [calls |-> 0]

InitLookups ==
    /\ store \in Stores
    /\ agentKind \in {"analyst", "programmer"}
    /\ max_retries = DefaultMaxRetries
    /\ cache = EmptyCache
    /\ pc = "idle"
    /\ op = "__init__"
    /\ arg = NoArg
    /\ attempt = 0
    /\ geminiLog = <<>>
    /\ result = NoResult
    /\ dbLog = <<>>
    /\ handler = NoHandler
    /\ history = LookupHistory0

CallLoadMethodologyKnowledge ==
    \E methodology_id \in KnowledgeIds :
        /\ agentKind = "analyst"
        /\ history.calls < MaxLookupCalls
        /\ history' = [history EXCEPT !.calls = @ + 1]
        /\ Finish("_load_methodology_knowledge", [methodology_id |-> methodology_id],
                  _load_methodology_knowledge(cache, store, methodology_id))
        /\ UNCHANGED <<agentKind, max_retries, attempt, geminiLog, handler>>

CallGetAvailableEquipment ==
    \E equipment_access \in EquipmentAccesses :
        /\ agentKind = "programmer"
        /\ history.calls < MaxLookupCalls
        /\ history' = [history EXCEPT !.calls = @ + 1]
        /\ Finish("_get_available_equipment", [equipment_access |-> equipment_access],
                  Returned(cache, <<>>,
                           [t |-> "equipment",
                            items |-> _get_available_equipment(equipment_access)]))
        /\ UNCHANGED <<agentKind, max_retries, attempt, geminiLog, handler>>

NextLookups ==
    \/ CallLoadMethodologyKnowledge
    \/ CallGetAvailableEquipment

SpecLookups == InitLookups /\ [][NextLookups]_vars

\* C22: when the store has no methodology for the given id (None included),
\* _load_methodology_knowledge returns a knowledge record whose
\* methodology_name is "General Powerlifting" and which has a knowledge_base.
C22_DefaultKnowledge ==
    ( /\ op = "_load_methodology_knowledge"
      /\ pc = "done"
      /\ arg.methodology_id \notin store.methodologies ) =>
        /\ result.status = "return"
        /\ result.val.t = "dict"
        /\ <<"methodology_name", "General Powerlifting">> \in result.val.d
        /\ \E pair \in result.val.d : pair[1] = "knowledge_base"

\* C23: the equipment _get_available_equipment("garage") returns contains
\* "barbell" and "dumbbells" and contains neither "machines" nor "cable".
C23_GarageEquipment ==
    ( /\ op = "_get_available_equipment"
      /\ pc = "done"
      /\ arg.equipment_access = "garage" ) =>
        /\ "barbell" \in result.val.items
        /\ "dumbbells" \in result.val.items
        /\ "machines" \notin result.val.items
        /\ "cable" \notin result.val.items

-----------------------------------------------------------------------------
(* SpecLegacy: POST /programs/generate (v1).  Without an API key the        *)
(* program comes from create_mock_program; with one, from AIAgent.          *)

MaxLegacyCalls == 1

\* ProgramGenerationRequest: weeks (ge=4, le=16) and daysPerWeek (ge=3, le=6)
RequestWeeks == 4..16
RequestDays == 3..6
Goals == {"peaking", "hypertrophy", "strength_block"}

Min(a, b) == IF a <= b THEN a ELSE b

MockSession(day_num) ==
    [dayNumber |-> day_num,
     focus |-> IF day_num = 1 THEN "Squat Volume" ELSE "Bench Volume",
     exercises |-> <<[name |-> IF day_num = 1 THEN "Competition Squat" ELSE "Bench Press",
                      sets |-> 4, reps |-> "5", rpeTarget |-> 80, restSeconds |-> 240]>>]

\* str.title() of the goal
GoalTitle(goal) ==
    CASE goal = "peaking" -> "Peaking"
      [] goal = "hypertrophy" -> "Hypertrophy"
      [] OTHER -> "Strength_Block"

\* create_mock_program: range(1, min(request.weeks, 2) + 1) weeks of
\* range(1, min(request.daysPerWeek, 2) + 1) sessions
create_mock_program(request) ==
    [t |-> "FullProgram", id |-> "mock",
     title |-> ToString(request.weeks) \o "-Week " \o GoalTitle(request.goal)
               \o " Program (MOCK)",
     weeks |-> [week_num \in 1..Min(request.weeks, 2) |->
                   [weekNumber |-> week_num,
                    sessions |-> [day_num \in 1..Min(request.daysPerWeek, 2) |->
                                     MockSession(day_num)]]]]

\* what AIAgent.generate_lifting_program ends with: a validated program, or
\* ProgramGenerationError after its attempts
LegacyAgentOutcomes ==
    {Returned(EmptyCache, <<>>,
              [t |-> "FullProgram", id |-> "prg_001", title |-> "Strength Block",
               weeks |-> <<[weekNumber |-> 1, sessions |-> <<MockSession(1)>>]>>]),
     Raised(EmptyCache, <<>>, "ProgramGenerationError")}

DbFlush == [verb |-> "flush", table |-> "", row |-> NoRow]
DbFlushFails == [verb |-> "flush_fails", table |-> "", row |-> NoRow]

\* "Save program to database": add and flush; a failure is rolled back and
\* logged as a warning
save_program_v1(env, row) ==
    IF ~env.has_db THEN <<>>
    ELSE IF env.flush_ok THEN <<DbAdd("programs", row), DbFlush>>
    ELSE <<DbAdd("programs", row), DbFlushFails, DbRollback>>

\* generate_program with get_db around it
generate_program(c, env, request, generated) ==
    IF generated.status = "raise"
    THEN Returned(c, get_db_exit(env, TRUE),
                  [t |-> "HTTPException", status_code |-> 500, code |-> "GENERATION_FAILED"])
    ELSE Returned(c, save_program_v1(env, [id |-> "program_2"]) \o get_db_exit(env, FALSE),
                  [t |-> "ProgramResponse", status_code |-> 200,
                   program |-> [generated.val EXCEPT !.id = "program_2"],
                   message |-> "Program generated successfully"])

LegacyEnvironments ==
    {env \in [api_key : BOOLEAN, has_db : BOOLEAN, flush_ok : BOOLEAN] :
        ~env.has_db => env.flush_ok}

LegacyRequests == [weeks : RequestWeeks, daysPerWeek : RequestDays, goal : Goals]

LegacyHistory0 == [calls |-> 0]

InitLegacy ==
    /\ store \in {st \in Stores : st.exercises = {} /\ st.methodologies = {}}
    /\ agentKind = "legacy"
    /\ max_retries = DefaultMaxRetries
    /\ cache = EmptyCache
    /\ pc = "idle"
    /\ op = "__init__"
    /\ arg = NoArg
    /\ attempt = 0
    /\ geminiLog = <<>>
    /\ result = NoResult
    /\ dbLog = <<>>
    /\ handler = NoHandler
    /\ history = LegacyHistory0

GenerateProgram ==
    \E request \in LegacyRequests, env \in LegacyEnvironments,
       outcome \in LegacyAgentOutcomes :
        /\ env.api_key \/ outcome.status = "return"
        /\ history.calls < MaxLegacyCalls
        /\ history' = [history EXCEPT !.calls = @ + 1]
        /\ Finish("generate_program", [request |-> request, env |-> env],
                  generate_program(cache, env, request,
                                   IF env.api_key THEN outcome
                                   ELSE Returned(cache, <<>>, create_mock_program(request))))
        /\ UNCHANGED <<agentKind, max_retries, attempt, geminiLog, handler>>

NextLegacy == GenerateProgram

SpecLegacy == InitLegacy /\ [][NextLegacy]_vars

\* C24: with no API key, POST /programs/generate succeeds with a fallback
\* program that has exactly request.weeks weeks, exactly request.daysPerWeek
\* sessions in every week and at least one exercise in every session.
C24_MockProgramShape ==
    (op = "generate_program" /\ pc = "done" /\ ~arg.env.api_key) =>
        /\ result.val.status_code = 200
        /\ Len(result.val.program.weeks) = arg.request.weeks
        /\ \A w \in 1..Len(result.val.program.weeks) :
              /\ Len(result.val.program.weeks[w].sessions) = arg.request.daysPerWeek
              /\ \A d \in 1..Len(result.val.program.weeks[w].sessions) :
                    Len(result.val.program.weeks[w].sessions[d].exercises) >= 1

-----------------------------------------------------------------------------
(* SpecReadiness: POST /readiness/check and GET /readiness/stats/{user_id}. *)
(* Scores are kept in fiftieths: (sleep/5)*0.4 + ((6-stress)/5)*0.3 +       *)
(* (soreness/5)*0.3 = (4*sleep + 3*(6-stress) + 3*soreness) / 50, and for    *)
(* ratings 1..5 the float comparisons with 0.5 and 0.7 agree with the exact  *)
(* ones with 25/50 and 35/50.                                                *)

MaxReadinessCalls == 2

UserIds == {"user_1", "user_2"}

\* sleepQuality, stressLevel and soreness_fatigue, on the scale 1..5
Ratings == {1, 2, 5}

readiness_score(sleepQuality, stressLevel, soreness_fatigue) ==
    4 * sleepQuality + 3 * (6 - stressLevel) + 3 * soreness_fatigue

\* should_adjust and adjustment_type of the if / elif / else over the score
adjustment_type(score) ==
    IF score < 25 THEN "reduce_volume"
    ELSE IF score < 35 THEN "reduce_intensity"
    ELSE "None"

\* submit_readiness_check: the response, and the row when it was saved
submit_readiness_check(request, has_db, commit_ok) ==
    LET score == readiness_score(request.sleepQuality, request.stressLevel,
                                 request.soreness_fatigue)
    IN  [response |-> [t |-> "ReadinessCheckResponse", status_code |-> 200,
                       overallReadiness |-> score,
                       shouldAdjustWorkout |-> adjustment_type(score) # "None",
                       adjustmentType |-> adjustment_type(score)],
         ops |-> IF ~has_db THEN <<>>
                 ELSE IF commit_ok
                 THEN <<DbAdd("readiness_checks",
                              [user_id |-> request.userId, overall_readiness |-> score]),
                        DbCommit>>
                 ELSE <<DbAdd("readiness_checks",
                              [user_id |-> request.userId, overall_readiness |-> score]),
                        DbCommitFails, DbRollback>>,
         saved |-> has_db /\ commit_ok]

counts_as_adjustment_low_only(check) == check.overall_readiness < 25

\* "Count adjustments needed": c.overall_readiness < 0.7
counts_as_adjustment(check) == check.overall_readiness < 35

\* get_readiness_stats
get_readiness_stats(st, has_db, user_id) ==
    LET checks == SelectSeq(st.readiness, LAMBDA c : c.user_id = user_id)
    IN  IF ~has_db THEN [t |-> "HTTPException", status_code |-> 503]
        ELSE IF Len(checks) = 0
        THEN [t |-> "stats", status_code |-> 200, total_checks |-> 0,
              has_adjustments_needed_count |-> FALSE, adjustments_needed_count |-> 0]
        ELSE [t |-> "stats", status_code |-> 200, total_checks |-> Len(checks),
              has_adjustments_needed_count |-> TRUE,
              adjustments_needed_count |-> Len(SelectSeq(checks, counts_as_adjustment))]

ReadinessRequests ==
    [userId : UserIds, sleepQuality : Ratings, stressLevel : Ratings,
     soreness_fatigue : Ratings]

\* has_db: whether get_db hands out a session; answers: what each submit
\* answered and whether its row was saved
ReadinessHistory0(has_db) == [calls |-> 0, has_db |-> has_db, answers |-> <<>>]

InitReadiness ==
    /\ store = [methodologies |-> {}, exercises |-> {}, conversations |-> <<>>,
                programs |-> {"program_1"}, readiness |-> <<>>]
    /\ agentKind = "none"
    /\ max_retries = DefaultMaxRetries
    /\ cache = EmptyCache
    /\ pc = "idle"
    /\ op = "__init__"
    /\ arg = NoArg
    /\ attempt = 0
    /\ geminiLog = <<>>
    /\ result = NoResult
    /\ dbLog = <<>>
    /\ handler = NoHandler
    /\ \E has_db \in BOOLEAN : history = ReadinessHistory0(has_db)

ReadinessDone(o, a, ops, val) ==
    /\ op' = o
    /\ arg' = a
    /\ pc' = "done"
    /\ dbLog' = ops \o get_db_exit([has_db |-> history.has_db], val.status_code # 200)
    /\ result' = [status |-> "return", err |-> "", val |-> val, db |-> ops, gemini |-> NoGemini]
    /\ UNCHANGED <<agentKind, max_retries, cache, attempt, geminiLog, handler>>

ReadinessSubmitted(request, r) ==
    /\ ReadinessDone("submit_readiness_check", request, r.ops, r.response)
    /\ store' = IF r.saved
                THEN [store EXCEPT !.readiness = Append(@, r.ops[1].row)]
                ELSE store
    /\ history' = [history EXCEPT !.calls = @ + 1,
                                  !.answers = Append(@, [userId |-> request.userId,
                                                         saved |-> r.saved,
                                                         shouldAdjustWorkout |->
                                                             r.response.shouldAdjustWorkout])]

SubmitReadinessCheck ==
    \E request \in ReadinessRequests, commit_ok \in BOOLEAN :
        /\ history.calls < MaxReadinessCalls
        /\ history.has_db \/ commit_ok
        /\ ReadinessSubmitted(request, submit_readiness_check(request, history.has_db, commit_ok))

GetReadinessStats ==
    \E user_id \in UserIds :
        /\ UNCHANGED history
        /\ ReadinessDone("get_readiness_stats", [user_id |-> user_id],
                         IF history.has_db THEN <<DbSelect("readiness_checks")>> ELSE <<>>,
                         get_readiness_stats(store, history.has_db, user_id))
        /\ UNCHANGED store

NextReadiness ==
    \/ SubmitReadinessCheck
    \/ GetReadinessStats

SpecReadiness == InitReadiness /\ [][NextReadiness]_vars

\* the saved checks of a user, as the submit responses answered them
SavedAnswers(user_id) ==
    SelectSeq(history.answers, LAMBDA a : a.userId = user_id /\ a.saved)

\* C25: the statistics of a user agree with the answers given at submission
\* time: total_checks is the number of the user's saved checks, and with at
\* least one saved check adjustments_needed_count is the number of those whose
\* response had shouldAdjustWorkout = true; a saved check answered with
\* shouldAdjustWorkout = false is never counted.  (With no saved check the
\* statistics carry total_checks = 0 and no count.)
C25_StatsAgree ==
    (op = "get_readiness_stats" /\ pc = "done" /\ history.has_db) =>
        /\ result.val.status_code = 200
        /\ result.val.total_checks = Len(SavedAnswers(arg.user_id))
        /\ result.val.has_adjustments_needed_count = (Len(SavedAnswers(arg.user_id)) > 0)
        /\ result.val.adjustments_needed_count =
               Len(SelectSeq(SavedAnswers(arg.user_id), LAMBDA a : a.shouldAdjustWorkout))

\* statistics over two saved checks of one user, one answered reduce_intensity
\* and one answered with a score of exactly 0.7 and no adjustment
C25_Witness ==
    /\ op = "get_readiness_stats" /\ pc = "done"
    /\ result.val.status_code = 200
    /\ result.val.total_checks = 2
    /\ result.val.adjustments_needed_count = 1
    /\ \E i \in 1..Len(store.readiness) : store.readiness[i].overall_readiness = 35
    /\ \E i \in 1..Len(store.readiness) : store.readiness[i].overall_readiness \in 25..34

-----------------------------------------------------------------------------
(* SpecParse: RouterAgent.process and ProgrammerAgent.process on instances  *)
(* constructed with any max_retries >= 1, the provider answering each call  *)
(* with a failure, an empty text, or a text that may or may not parse and   *)
(* validate.                                                                *)

InitParse ==
    /\ store \in {st \in Stores : st.methodologies = {"westside"} /\ st.exercises = {}}
    /\ agentKind \in {"router", "programmer"}
    /\ max_retries \in 1..MaxRetriesBound
    /\ cache = EmptyCache
    /\ pc = "idle"
    /\ op = "__init__"
    /\ arg = NoArg
    /\ attempt = 0
    /\ geminiLog = <<>>
    /\ result = NoResult
    /\ dbLog = <<>>
    /\ handler = NoHandler
    /\ history = AgentHistory0

CallProgrammerOnInstance ==
    /\ agentKind = "programmer"
    /\ CallProgrammerProcess

NextParse ==
    \/ CallRouterProcess
    \/ CallProgrammerOnInstance
    \/ GeminiAttempt

SpecParse == InitParse /\ [][NextParse]_vars

\* a parsed text IntentClassification(**json.loads(text)) accepts
RouterAccepts(parsed) ==
    parsed.ok /\ parsed.doc.kind = "object" /\ ValidIntentClassification(parsed.doc)

\* a parsed text FullProgramSchema(**json.loads(text)) accepts
ProgrammerAccepts(parsed) ==
    parsed.ok /\ parsed.doc.kind = "object" /\ ValidFullProgram(parsed.doc)

\* the provider's first answer of the current call is a non-empty text that
\* fails JSON parsing or schema validation
FirstAnswerRejected ==
    /\ op \in {"router.process", "programmer.process"}
    /\ Len(geminiLog) >= 1
    /\ geminiLog[1].kind = "text"
    /\ geminiLog[1].text # ""
    /\ IF op = "router.process"
       THEN ~RouterAccepts(json_loads(geminiLog[1].text))
       ELSE ~ProgrammerAccepts(json_loads(geminiLog[1].text))

\* C26: a parse or schema failure is not retried by the Router and the
\* Programmer: when the provider's first answer is a non-empty text that
\* fails JSON parsing or validation, process has raised that failure after
\* exactly one provider call, whatever max_retries is.
C26_NoRetryOnParseFailure ==
    FirstAnswerRejected =>
        /\ pc = "done"
        /\ attempt = 1
        /\ Len(geminiLog) = 1
        /\ result.status = "raise"
        /\ result.err \in {"JSONDecodeError", "TypeError", "ValidationError"}

\* a Programmer allowed three or more attempts raises ValidationError after
\* one provider call
C26_Witness ==
    /\ max_retries >= 3
    /\ agentKind = "programmer"
    /\ FirstAnswerRejected
    /\ pc = "done"
    /\ Len(geminiLog) = 1
    /\ result.err = "ValidationError"

-----------------------------------------------------------------------------
(* SpecRouting: the requests of SpecDispatch, with the branch taken for     *)
(* each classification the router returned kept in history.routed.          *)

RoutingHistory0 == [requests |-> 0, routed |-> {}]

InitRouting ==
    /\ store \in {st \in Stores : st.exercises = {} /\ st.methodologies = {"westside"}}
    /\ agentKind = "router"
    /\ max_retries = DefaultMaxRetries
    /\ cache = EmptyCache
    /\ pc = "idle"
    /\ op = "__init__"
    /\ arg = NoArg
    /\ attempt = 0
    /\ geminiLog = <<>>
    /\ result = NoResult
    /\ dbLog = <<>>
    /\ handler = [NewHandler([message |-> "", methodologyId |-> "None"],
                             [api_key |-> FALSE, has_db |-> FALSE, add_ok |-> FALSE,
                              commit_ok |-> FALSE],
                             store) EXCEPT !.pc = "idle"]
    /\ history = RoutingHistory0

\* the branch the handler took for a classification: agent_used, the agents
\* it invoked and, for a stub branch, the stub it answered with
BranchTaken(h) ==
    [classification |-> h.classification, agent_used |-> h.agent_used,
     invoked |-> h.invoked, agent_response |-> h.agent_response]

RoutedAnswers ==
    /\ ProviderAnswered
    /\ history' = IF handler.classification.t = "None" /\ handler'.classification.t # "None"
                  THEN [history EXCEPT !.routed = @ \cup {BranchTaken(handler')}]
                  ELSE history

NextRouting ==
    \/ HandleAgentMessage
    \/ RoutedAnswers

SpecRouting == InitRouting /\ [][NextRouting]_vars

\* C27: routing depends on the intent only: any two classifications with the
\* same intent, whatever their confidence, reasoning, suggestedAgent and
\* requiresProgramContext, are dispatched to the same agent with the same
\* agentUsed and, on a stub branch, answered with the same stub.
C27_IntentOnly ==
    \A x \in history.routed, y \in history.routed :
        x.classification.intent = y.classification.intent =>
            /\ x.agent_used = y.agent_used
            /\ x.invoked = y.invoked
            /\ x.agent_response = y.agent_response

\* two requests classified program_adjustment, one with confidence 0.95 and
\* suggestedAgent feedback, one with confidence 0.45 and suggestedAgent
\* programmer, both answered by the feedback branch; and two classified
\* technique_question the same way, both dispatched to the Analyst
C27_Witness ==
    \E x \in history.routed, y \in history.routed :
        /\ x.classification.intent = "program_adjustment"
        /\ y.classification.intent = "program_adjustment"
        /\ x.classification.confidence = 95 /\ y.classification.confidence = 45
        /\ x.classification.suggestedAgent = "feedback"
        /\ y.classification.suggestedAgent = "programmer"
        /\ x.classification.requiresProgramContext # y.classification.requiresProgramContext
        /\ x.agent_used = "feedback" /\ y.agent_used = "feedback"
        /\ handler.pc = "done" /\ handler.status = 200

-----------------------------------------------------------------------------
(* SpecProgress: the progress endpoints that call                            *)
(* get_or_create_progress_log (complete, intensity, schedule, bulk-sync) and *)
(* the single-row lookup of uncomplete, as requests that interleave at       *)
(* their awaits.  Each request has its own session (autoflush = False): a    *)
(* select sees the committed rows only, and db.add() stays pending until     *)
(* the commit.                                                               *)

MaxProgressRequests == 3
MaxBulkSessions == 2

\* the requests in flight at a time
ProgressClients == {1, 2}

ProgramIds == {"program_1", "program_9"}

\* (week_number, day_number) of a SessionCompletionRequest
SessionKeys == {<<1, 1>>, <<1, 2>>}

ProgressEndpoints == {"complete", "intensity", "schedule", "bulk-sync", "uncomplete"}

\* the body of a request: one session, or the list of a bulk-sync
ProgressBodies(endpoint) ==
    IF endpoint = "bulk-sync"
    THEN UNION {[1..n -> SessionKeys] : n \in 0..MaxBulkSessions}
    ELSE {<<k>> : k \in SessionKeys}

ProgressLogRow(program_id, key) ==
    [user_id |-> "user_1", program_id |-> program_id,
     week_number |-> key[1], day_number |-> key[2]]

\* the rows the where clause of the lookup matches
MatchingLogs(st, program_id, key) ==
    SelectSeq(st.progress_logs, LAMBDA row : row = ProgressLogRow(program_id, key))

\* get_or_create_progress_log: scalar_one_or_none() of the committed rows,
\* and db.add() of a new row when there is none
get_or_create_progress_log(st, pending, program_id, key) ==
    LET found == Len(MatchingLogs(st, program_id, key))
    IN  IF found > 1 THEN [status |-> "raise", err |-> "MultipleResultsFound", pending |-> <<>>]
        ELSE IF found = 1 THEN [status |-> "return", err |-> "", pending |-> pending]
        ELSE [status |-> "return", err |-> "", pending |-> Append(pending, ProgressLogRow(program_id, key))]

IdleClient ==
    [pc |-> "idle", endpoint |-> "", program_id |-> "", sessions |-> <<>>, next |-> 1,
     pending |-> <<>>, status_code |-> 0, err |-> ""]

ProgressHistory0 == [requests |-> 0]

InitProgress ==
    /\ store = [methodologies |-> {}, exercises |-> {}, conversations |-> <<>>,
                programs |-> {"program_1"}, progress_logs |-> <<>>]
    /\ agentKind = "none"
    /\ max_retries = DefaultMaxRetries
    /\ cache = EmptyCache
    /\ pc = "idle"
    /\ op = "__init__"
    /\ arg = NoArg
    /\ attempt = 0
    /\ geminiLog = <<>>
    /\ result = NoResult
    /\ dbLog = <<>>
    /\ handler = [r \in ProgressClients |-> IdleClient]
    /\ history = ProgressHistory0

ClientDone(r, status_code, err) ==
    handler' = [handler EXCEPT ![r].pc = "done", ![r].status_code = status_code,
                               ![r].err = err, ![r].pending = <<>>]

\* a request arrives and selects its program
ProgressRequestArrives ==
    \E r \in ProgressClients, endpoint \in ProgressEndpoints, program_id \in ProgramIds :
        \E sessions \in ProgressBodies(endpoint) :
            /\ handler[r].pc \in {"idle", "done"}
            /\ history.requests < MaxProgressRequests
            /\ history' = [history EXCEPT !.requests = @ + 1]
            /\ handler' = [handler EXCEPT ![r] =
                   IF program_id \notin store.programs
                   THEN [IdleClient EXCEPT !.pc = "done", !.endpoint = endpoint,
                                           !.program_id = program_id, !.sessions = sessions,
                                           !.status_code = 404, !.err = "Program not found"]
                   ELSE [IdleClient EXCEPT !.pc = "running", !.endpoint = endpoint,
                                           !.program_id = program_id, !.sessions = sessions]]
            /\ UNCHANGED <<store, agentKind, max_retries, cache, pc, op, arg, attempt, geminiLog,
                           result, dbLog>>

\* the next call of get_or_create_progress_log of a request
GetOrCreateProgressLog ==
    \E r \in ProgressClients :
        LET h == handler[r]
            g == get_or_create_progress_log(store, h.pending, h.program_id, h.sessions[h.next])
        IN  /\ h.pc = "running"
            /\ h.endpoint # "uncomplete"
            /\ h.next <= Len(h.sessions)
            /\ IF g.status = "raise"
               THEN ClientDone(r, 500, g.err)
               ELSE handler' = [handler EXCEPT ![r].pending = g.pending, ![r].next = @ + 1]
            /\ UNCHANGED <<store, agentKind, max_retries, cache, pc, op, arg, attempt, geminiLog,
                           result, dbLog, history>>

\* await db.commit() and the response
CommitProgress ==
    \E r \in ProgressClients :
        LET h == handler[r]
        IN  /\ h.pc = "running"
            /\ h.endpoint # "uncomplete"
            /\ h.next > Len(h.sessions)
            /\ store' = [store EXCEPT !.progress_logs = @ \o h.pending]
            /\ ClientDone(r, 200, "")
            /\ UNCHANGED <<agentKind, max_retries, cache, pc, op, arg, attempt, geminiLog,
                           result, dbLog, history>>

\* mark_session_uncomplete: the single-row lookup and the update
MarkSessionUncomplete ==
    \E r \in ProgressClients :
        LET h == handler[r]
            found == Len(MatchingLogs(store, h.program_id, h.sessions[1]))
        IN  /\ h.pc = "running"
            /\ h.endpoint = "uncomplete"
            /\ IF found > 1 THEN ClientDone(r, 500, "MultipleResultsFound")
               ELSE IF found = 0 THEN ClientDone(r, 404, "No progress log found for this session")
               ELSE ClientDone(r, 200, "")
            /\ UNCHANGED <<store, agentKind, max_retries, cache, pc, op, arg, attempt, geminiLog,
                           result, dbLog, history>>

NextProgress ==
    \/ ProgressRequestArrives
    \/ GetOrCreateProgressLog
    \/ CommitProgress
    \/ MarkSessionUncomplete

SpecProgress == InitProgress /\ [][NextProgress]_vars

\* C28: at most one progress log exists per session: after any interleaving
\* of complete, intensity, schedule and bulk-sync requests on a program the
\* store holds at most one ProgressLog row for each (user, program,
\* week_number, day_number), and the single-row lookup of complete and
\* uncomplete never finds two rows.
C28_OneLogPerSession ==
    /\ \A program_id \in ProgramIds, key \in SessionKeys :
           Len(MatchingLogs(store, program_id, key)) <= 1
    /\ \A r \in ProgressClients : handler[r].err # "MultipleResultsFound"

-----------------------------------------------------------------------------
(* SpecUserSync: POST /users/profile (sync_user_profile) as requests that   *)
(* interleave at their awaits.  Each request runs in its own transaction:   *)
(* a select reads the committed rows, a flush sends the INSERT or UPDATE,   *)
(* which waits while another open transaction holds a write to the same     *)
(* key, and get_db commits when the handler has returned.  A request's      *)
(* email is the user's own: no other user of the table holds it.            *)

MaxSyncRequests == 3

SyncClients == {1, 2}

\* UserProfileRequest bodies: picture is carried like name and left out
UserProfileRequests ==
    {[id |-> "user_1", email |-> "lifter@example.com", name |-> "Alex"],
     [id |-> "user_1", email |-> "lifter@work.example", name |-> "Alex L."],
     [id |-> "user_2", email |-> "coach@example.com", name |-> "Sam"]}

NoTx == [t |-> "None", row |-> NoRow]

\* a write of another open transaction to the row's primary key or email
HeldByOther(h, r, row) ==
    \E q \in DOMAIN h :
        /\ q # r
        /\ h[q].tx.t # "None"
        /\ (h[q].tx.row.id = row.id \/ h[q].tx.row.email = row.email)

\* the primary key of profiles and the unique index on email
ViolatesUnique(st, verb, row) ==
    \E i \in 1..Len(st.profiles) :
        \/ verb = "insert" /\ st.profiles[i].id = row.id
        \/ st.profiles[i].id # row.id /\ st.profiles[i].email = row.email

\* select(User).where(User.id == profile.id) ... scalar_one_or_none()
existing_user(st, id) == \E i \in 1..Len(st.profiles) : st.profiles[i].id = id

\* the committed table after a transaction's write
CommitTx(st, tx) ==
    IF tx.t = "None" THEN st
    ELSE IF tx.t = "insert" THEN [st EXCEPT !.profiles = Append(@, tx.row)]
    ELSE [st EXCEPT !.profiles =
              [i \in 1..Len(@) |-> IF @[i].id = tx.row.id THEN tx.row ELSE @[i]]]

on_integrity_error_gives_up(raced) == "raise"

\* except IntegrityError on the flush of the insert: rollback and re-read,
\* once; an IntegrityError after the re-read is raised
on_integrity_error(raced) == IF raced THEN "raise" ELSE "reselect"

IdleSync ==
    [pc |-> "idle", profile |-> NoRow, tx |-> NoTx, found_none |-> FALSE, raced |-> FALSE,
     status_code |-> 0, response |-> None]

SyncHistory0 == [requests |-> 0]

InitUserSync ==
    /\ store = [methodologies |-> {}, exercises |-> {}, conversations |-> <<>>,
                programs |-> {"program_1"}, profiles |-> <<>>]
    /\ agentKind = "none"
    /\ max_retries = DefaultMaxRetries
    /\ cache = EmptyCache
    /\ pc = "idle"
    /\ op = "__init__"
    /\ arg = NoArg
    /\ attempt = 0
    /\ geminiLog = <<>>
    /\ result = NoResult
    /\ dbLog = <<>>
    /\ handler = [r \in SyncClients |-> IdleSync]
    /\ history = SyncHistory0

SyncUnchanged == UNCHANGED <<agentKind, max_retries, cache, pc, op, arg, attempt, geminiLog,
                             result, dbLog>>

SyncRequestArrives ==
    \E r \in SyncClients, profile \in UserProfileRequests :
        /\ handler[r].pc \in {"idle", "done"}
        /\ history.requests < MaxSyncRequests
        /\ history' = [history EXCEPT !.requests = @ + 1]
        /\ handler' = [handler EXCEPT ![r] = [IdleSync EXCEPT !.pc = "select", !.profile = profile]]
        /\ UNCHANGED store
        /\ SyncUnchanged

\* "Check if user already exists", and the re-read after a lost insert
SelectUser ==
    \E r \in SyncClients :
        LET h == handler[r]
            found == existing_user(store, h.profile.id)
        IN  /\ h.pc \in {"select", "reselect"}
            /\ handler' = [handler EXCEPT ![r] =
                   IF found THEN [h EXCEPT !.pc = "flush_update"]
                   ELSE IF h.pc = "select"
                        THEN [h EXCEPT !.pc = "flush_insert", !.found_none = TRUE]
                        ELSE [h EXCEPT !.pc = "done", !.status_code = 500,
                                       !.response = None]]
            /\ UNCHANGED <<store, history>>
            /\ SyncUnchanged

\* await db.flush() of the new or the updated user, and what follows it up
\* to the next await: the response, or the rollback of the except clause
FlushUser ==
    \E r \in SyncClients :
        LET h == handler[r]
            verb == IF h.pc = "flush_insert" THEN "insert" ELSE "update"
            next == on_integrity_error(h.raced)
        IN  /\ h.pc \in {"flush_insert", "flush_update"}
            /\ ~HeldByOther(handler, r, h.profile)
            /\ handler' = [handler EXCEPT ![r] =
                   IF ~ViolatesUnique(store, verb, h.profile)
                   THEN [h EXCEPT !.pc = "return", !.tx = [t |-> verb, row |-> h.profile],
                                  !.response = [t |-> "UserProfileResponse",
                                                id |-> h.profile.id,
                                                email |-> h.profile.email,
                                                name |-> h.profile.name]]
                   ELSE IF verb = "insert" /\ next = "reselect"
                        THEN [h EXCEPT !.pc = "reselect", !.tx = NoTx, !.raced = TRUE]
                        ELSE [h EXCEPT !.pc = "done", !.tx = NoTx, !.status_code = 500,
                                       !.response = None]]
            /\ UNCHANGED <<store, history>>
            /\ SyncUnchanged

\* the handler has returned: get_db commits and the response is sent
SyncReturns ==
    \E r \in SyncClients :
        LET h == handler[r]
        IN  /\ h.pc = "return"
            /\ store' = CommitTx(store, h.tx)
            /\ handler' = [handler EXCEPT ![r].pc = "done", ![r].tx = NoTx,
                                          ![r].status_code = 200]
            /\ UNCHANGED history
            /\ SyncUnchanged

NextUserSync ==
    \/ SyncRequestArrives
    \/ SelectUser
    \/ FlushUser
    \/ SyncReturns

SpecUserSync == InitUserSync /\ [][NextUserSync]_vars

UserRows(id) == SelectSeq(store.profiles, LAMBDA row : row.id = id)

\* both requests are for the same user id and both found no existing user
BothFoundNone ==
    /\ handler[1].found_none /\ handler[2].found_none
    /\ handler[1].profile.id = handler[2].profile.id

\* C29: user sync is race-safe: no user id ever has two rows; a request that
\* found no user and lost the insert goes on to re-read and update; and when
\* two requests for the same new user id that both found no existing user
\* have finished, there is exactly one row for the id, exactly one request
\* met the integrity error, the row carries that request's own email and
\* name, and both were answered 200 with their own profile.
C29_SyncRaceSafe ==
    /\ \A p \in UserProfileRequests : Len(UserRows(p.id)) <= 1
    /\ \A r \in SyncClients : handler[r].pc = "done" => handler[r].status_code = 200
    /\ (BothFoundNone /\ handler[1].pc = "done" /\ handler[2].pc = "done") =>
           /\ Len(UserRows(handler[1].profile.id)) = 1
           /\ handler[1].raced # handler[2].raced
           /\ \A r \in SyncClients :
                  /\ handler[r].response.t = "UserProfileResponse"
                  /\ handler[r].response.id = handler[r].profile.id
                  /\ handler[r].response.email = handler[r].profile.email
                  /\ handler[r].raced => UserRows(handler[r].profile.id)[1] = handler[r].profile

\* two requests for user_1 with different emails both found no user; the
\* second lost the insert, re-read the row and left its own email on it
C29_Witness ==
    /\ BothFoundNone
    /\ handler[1].pc = "done" /\ handler[2].pc = "done"
    /\ handler[2].raced
    /\ handler[1].profile.email = "lifter@example.com"
    /\ handler[2].profile.email = "lifter@work.example"
    /\ store.profiles = <<handler[2].profile>>

-----------------------------------------------------------------------------
(* SpecSession: get_db around the handlers that only flush their writes:    *)
(* save_lifter_profile (two flushes), sync_user_profile (a flush, and on    *)
(* IntegrityError a rollback, a re-read and a second flush) and the v1      *)
(* generate_program (a flush whose failure is rolled back and logged).      *)
(* The store is configured; the code after the yield of get_db runs before  *)
(* the response is sent, so an error raised there fails the request.        *)

MaxSessionRequests == 3

SessionEndpoints == {"save_lifter_profile", "sync_user_profile", "generate_program"}

\* the tables a handler writes, in the order of its flushes
FlushedTables(endpoint) ==
    CASE endpoint = "save_lifter_profile" -> <<"user_profile_data", "lifter_profiles">>
      [] endpoint = "sync_user_profile" -> <<"profiles">>
      [] OTHER -> <<"programs">>

\* async with AsyncSessionLocal() as session
NewSession == [state |-> "active", tx |-> <<>>, log |-> <<>>]

get_db_commits_in_finally(session, raised, commit_ok) ==
    IF raised
    THEN [session |-> [state |-> "closed", tx |-> <<>>,
                       log |-> session.log \o <<"rollback", "commit", "close">>],
          durable |-> session.tx, status_code |-> 500]
    ELSE [session |-> [state |-> "closed", tx |-> <<>>,
                       log |-> session.log \o <<"commit", "close">>],
          durable |-> session.tx, status_code |-> 200]

\* get_db after the yield: except Exception: rollback and raise; else:
\* commit; finally: close.  durable is what the commit made durable.
get_db(session, raised, commit_ok) ==
    IF raised
    THEN [session |-> [state |-> "closed", tx |-> <<>>,
                       log |-> session.log \o <<"rollback", "close">>],
          durable |-> <<>>, status_code |-> 500]
    ELSE IF commit_ok
    THEN [session |-> [state |-> "closed", tx |-> <<>>,
                       log |-> session.log \o <<"commit", "close">>],
          durable |-> session.tx, status_code |-> 200]
    ELSE [session |-> [state |-> "closed", tx |-> <<>>,
                       log |-> session.log \o <<"commit_fails", "close">>],
          durable |-> <<>>, status_code |-> 500]

\* db.add(...) and await db.flush() of the handler's next write, and the
\* handler up to its next flush, its return or its raise
handler_flush(h, flush_ok, found) ==
    LET tables == FlushedTables(h.endpoint)
        row == [table |-> tables[h.next], request |-> h.n]
        s == h.session
    IN  IF flush_ok
        THEN [h EXCEPT !.session = [s EXCEPT !.tx = Append(@, row), !.log = Append(@, "flush")],
                       !.next = @ + 1,
                       !.pc = IF h.next = Len(tables) THEN "exit" ELSE "handler"]
        ELSE IF h.endpoint = "generate_program"
        THEN [h EXCEPT !.session = [s EXCEPT !.tx = <<>>,
                                             !.log = @ \o <<"flush_fails", "rollback">>],
                       !.pc = "exit"]
        ELSE IF h.endpoint = "sync_user_profile" /\ ~h.raced
        THEN [h EXCEPT !.session = [s EXCEPT !.tx = <<>>,
                                             !.log = @ \o <<"flush_fails", "rollback">>],
                       !.raced = TRUE,
                       !.raised = ~found,
                       !.pc = IF found THEN "handler" ELSE "exit"]
        ELSE [h EXCEPT !.session = [s EXCEPT !.log = Append(@, "flush_fails")],
                       !.raised = TRUE, !.pc = "exit"]

IdleRequest ==
    [pc |-> "idle", endpoint |-> "", n |-> 0, session |-> NewSession, next |-> 1,
     raced |-> FALSE, raised |-> FALSE, flushed |-> <<>>, status_code |-> 0]

SessionHistory0 == [requests |-> 0]

InitSession ==
    /\ store = [methodologies |-> {}, exercises |-> {}, conversations |-> <<>>,
                programs |-> {"program_1"}, rows |-> {}]
    /\ agentKind = "none"
    /\ max_retries = DefaultMaxRetries
    /\ cache = EmptyCache
    /\ pc = "idle"
    /\ op = "__init__"
    /\ arg = NoArg
    /\ attempt = 0
    /\ geminiLog = <<>>
    /\ result = NoResult
    /\ dbLog = <<>>
    /\ handler = IdleRequest
    /\ history = SessionHistory0

SessionUnchanged == UNCHANGED <<agentKind, max_retries, cache, pc, op, arg, attempt, geminiLog,
                                result, dbLog>>

\* a request arrives and get_db hands its session to the handler
SessionRequestBegins ==
    \E endpoint \in SessionEndpoints :
        /\ handler.pc \in {"idle", "done"}
        /\ history.requests < MaxSessionRequests
        /\ history' = [history EXCEPT !.requests = @ + 1]
        /\ handler' = [IdleRequest EXCEPT !.pc = "handler", !.endpoint = endpoint,
                                          !.n = history.requests + 1]
        /\ UNCHANGED store
        /\ SessionUnchanged

HandlerFlushes ==
    \E flush_ok \in BOOLEAN, found \in BOOLEAN :
        /\ handler.pc = "handler"
        /\ handler' = handler_flush(handler, flush_ok, found)
        /\ UNCHANGED <<store, history>>
        /\ SessionUnchanged

\* the handler has returned or raised: the rest of get_db and the response
GetDbExits ==
    \E commit_ok \in BOOLEAN :
        LET r == get_db(handler.session, handler.raised, commit_ok)
        IN  /\ handler.pc = "exit"
            /\ handler.raised => commit_ok
            /\ handler' = [handler EXCEPT !.pc = "done", !.session = r.session,
                                          !.flushed = handler.session.tx,
                                          !.status_code = r.status_code]
            /\ store' = [store EXCEPT !.rows = @ \cup {r.durable[i] : i \in 1..Len(r.durable)}]
            /\ UNCHANGED history
            /\ SessionUnchanged

NextSession ==
    \/ SessionRequestBegins
    \/ HandlerFlushes
    \/ GetDbExits

SpecSession == InitSession /\ [][NextSession]_vars

LogHas(log, verbs) == \E i \in 1..Len(log) : log[i] \in verbs

\* C30: for every finished request the session was committed exactly when
\* the handler finished without raising; when the handler raised, get_db
\* rolled back just before closing and the request failed; the session is
\* closed last in both cases; and the writes the handler had flushed are in
\* the store if and only if the request succeeded, no write of a failed
\* request being there.
C30_SessionLifecycle ==
    handler.pc = "done" =>
        LET log == handler.session.log
        IN  /\ LogHas(log, {"commit", "commit_fails"}) = ~handler.raised
            /\ handler.raised =>
                   /\ Len(log) >= 2 /\ log[Len(log) - 1] = "rollback"
                   /\ handler.status_code # 200
            /\ handler.session.state = "closed"
            /\ log[Len(log)] = "close"
            /\ \A i \in 1..Len(log) - 1 : log[i] # "close"
            /\ \A i \in 1..Len(handler.flushed) :
                   (handler.flushed[i] \in store.rows) = (handler.status_code = 200)
            /\ handler.status_code # 200 =>
                   \A row \in store.rows : row.request # handler.n

\* a profile save whose first flush succeeded and whose second failed: the
\* session was rolled back and closed and the first write is not in the store
C30_Witness ==
    /\ handler.pc = "done"
    /\ handler.endpoint = "save_lifter_profile"
    /\ handler.raised
    /\ handler.flushed = <<[table |-> "user_profile_data", request |-> handler.n]>>
    /\ handler.session.log = <<"flush", "flush_fails", "rollback", "close">>
    /\ \E row \in store.rows : row.table = "lifter_profiles"

====
